---- MODULE Spec2Model ----
(***************************************************************************)
(* Transcript segmentation engine of conference-nlp                        *)
(* (src/parse_transcripts.py): the line scan of parse_transcript, its      *)
(* helpers extract_quarter and determine_speaker_role, and the record it   *)
(* returns.  Text is modelled as sequences of one-character strings, so    *)
(* that strip(), lower(), "in", isdigit(), startswith(), re.match, join()  *)
(* and split() are computed character by character.  Line indices are      *)
(* 0-based as in the source: lines[k] of the source is At(k).              *)
(***************************************************************************)
EXTENDS Integers, Sequences, FiniteSets, TLC

VARIABLES lines, quarter, i, current_section, current_role,
          prepared_remarks, qa_management, qa_analysts, pc, result,
          ticker, tickers, ticker_idx, files, file_idx,
          parsed_data_list, warnings, saved, dpc, mu

vars == <<lines, quarter, i, current_section, current_role,
          prepared_remarks, qa_management, qa_analysts, pc, result,
          ticker, tickers, ticker_idx, files, file_idx,
          parsed_data_list, warnings, saved, dpc, mu>>

\* The state of main(): the ticker at hand, the listings and the positions
\* of the two for loops, the records of the ticker, the warnings printed,
\* the CSV files written, and the position of main() itself; with it mu, the
\* locals of parse_transcript of src/parse_mu_transcripts.py, which no step
\* of the generic parser touches.
driver == <<ticker, tickers, ticker_idx, files, file_idx,
            parsed_data_list, warnings, saved, dpc, mu>>

\* The variables of the generic parser and of main() without mu.
generic == <<lines, quarter, i, current_section, current_role,
             prepared_remarks, qa_management, qa_analysts, pc, result,
             ticker, tickers, ticker_idx, files, file_idx,
             parsed_data_list, warnings, saved, dpc>>

\* Bound of the generated inputs: a transcript is at most MaxBlocks blocks.
MaxBlocks == 3

\* ---- program constants ----
\* r'={30,}' and r'-{30,}': the shortest run that makes a separator.
SectionRun == 30
SpeakerRun == 30
\* lines[:20]: the quarter is searched in the first 20 lines.
QuarterWindow == 20

None == "None"
ROLE_MANAGEMENT == "Management"
ROLE_ANALYST == "Analyst"
ROLE_OPERATOR == "Operator"
SECTION_PRESENTATION == "Presentation"
SECTION_QA == "Q&A"

\* ---- characters ----
Whitespace == {" ", "\t", "\n", "\r"}
Digits == {"0", "1", "2", "3", "4", "5", "6", "7", "8", "9"}
UpperCase == <<"A", "B", "C", "D", "E", "F", "G", "H", "I", "J", "K", "L", "M",
               "N", "O", "P", "Q", "R", "S", "T", "U", "V", "W", "X", "Y", "Z">>
LowerCase == <<"a", "b", "c", "d", "e", "f", "g", "h", "i", "j", "k", "l", "m",
               "n", "o", "p", "q", "r", "s", "t", "u", "v", "w", "x", "y", "z">>

\* ---- keywords of the source ----
KwPresentation == <<"p", "r", "e", "s", "e", "n", "t", "a", "t", "i", "o", "n">>
KwQuestions == <<"q", "u", "e", "s", "t", "i", "o", "n", "s", " ", "a", "n", "d", " ", "a", "n", "s", "w", "e", "r", "s">>
KwQA == <<"q", "&", "a">>
KwDefinitions == <<"d", "e", "f", "i", "n", "i", "t", "i", "o", "n", "s">>
KwDisclaimer == <<"d", "i", "s", "c", "l", "a", "i", "m", "e", "r">>
KwOperator == <<"O", "p", "e", "r", "a", "t", "o", "r">>
KwAnalyst == <<"A", "n", "a", "l", "y", "s", "t">>
KwThomson == <<"T", "h", "o", "m", "s", "o", "n", " ", "R", "e", "u", "t", "e", "r", "s">>
management_titles ==
    << <<"C", "E", "O">>,
       <<"C", "F", "O">>,
       <<"C", "T", "O">>,
       <<"P", "r", "e", "s", "i", "d", "e", "n", "t">>,
       <<"O", "f", "f", "i", "c", "e", "r">>,
       <<"R", "e", "l", "a", "t", "i", "o", "n", "s">>,
       <<"C", "o", "u", "n", "s", "e", "l">>,
       <<"C", "o", "n", "t", "r", "o", "l", "l", "e", "r">>,
       <<"V", "i", "c", "e", " ", "P", "r", "e", "s", "i", "d", "e", "n", "t">>,
       <<"C", "h", "i", "e", "f">>,
       <<"M", "a", "n", "a", "g", "e", "r">>,
       <<"D", "i", "r", "e", "c", "t", "o", "r">> >>

\* ---- the lines of the input transcripts ----
TxtPresentation == <<"P", "r", "e", "s", "e", "n", "t", "a", "t", "i", "o", "n">>
TxtQuestions == <<"Q", "u", "e", "s", "t", "i", "o", "n", "s", " ", "a", "n", "d", " ", "A", "n", "s", "w", "e", "r", "s">>
TxtDisclaimer == <<"D", "i", "s", "c", "l", "a", "i", "m", "e", "r">>
TxtDefinitions == <<"D", "e", "f", "i", "n", "i", "t", "i", "o", "n", "s">>
TxtOperator == <<"O", "p", "e", "r", "a", "t", "o", "r">>
TxtJaneDoe == <<"J", "a", "n", "e", " ", "D", "o", "e", ",", " ", "C", "h", "i", "e", "f", " ", "F", "i", "n", "a", "n", "c", "i", "a", "l", " ", "O", "f", "f", "i", "c", "e", "r">>
TxtJohnRoe == <<"J", "o", "h", "n", " ", "R", "o", "e", ",", " ", "A", "c", "m", "e", " ", "B", "a", "n", "k">>
TxtRevenue == <<"R", "e", "v", "e", "n", "u", "e", " ", "g", "r", "e", "w", " ", "1", "0", "%", ".">>
TxtNextQuestion == <<"N", "e", "x", "t", " ", "q", "u", "e", "s", "t", "i", "o", "n", " ", "p", "l", "e", "a", "s", "e", ".">>
TxtPageNumber == <<"1", "7">>
TxtWatermark == <<"T", "h", "o", "m", "s", "o", "n", " ", "R", "e", "u", "t", "e", "r", "s", " ", "S", "t", "r", "e", "e", "t", "E", "v", "e", "n", "t", "s">>
TxtQuarterLine == <<"Q", "2", " ", "2", "0", "2", "2", " ", "E", "a", "r", "n", "i", "n", "g", "s", " ", "C", "a", "l", "l">>
TxtOperatorCEO == <<"O", "p", "e", "r", "a", "t", "o", "r", ",", " ", "C", "E", "O">>
TxtAnalystRelations == <<"A", "n", "a", "l", "y", "s", "t", " ", "R", "e", "l", "a", "t", "i", "o", "n", "s">>
TxtAnnLee == <<"A", "n", "n", " ", "L", "e", "e", ",", " ", "A", "n", "a", "l", "y", "s", "t">>
TxtLowerOperator == <<"o", "p", "e", "r", "a", "t", "o", "r">>
TxtQuarterWide == <<"F", "i", "s", "c", "a", "l", " ", "Q", "3", " ", " ", "2", "0", "2", "1", " ", "R", "e", "s", "u", "l", "t", "s">>
TxtQuarterTwo == <<"Q", "1", " ", "2", "0", "2", "0", " ", "v", "s", " ", "Q", "4", " ", "2", "0", "1", "9">>
TxtNoQuarter == <<"q", "2", " ", "2", "0", "2", "2", ",", " ", "Q", "5", " ", "2", "0", "2", "2", ",", " ", "Q", "2", " ", "2", "0", "2">>
TxtSourceNote == <<"S", "o", "u", "r", "c", "e", ":", " ", "T", "h", "o", "m", "s", "o", "n", " ", "R", "e", "u", "t", "e", "r", "s">>
TxtYearNote == <<"2", "0", "2", "2", " ", "o", "u", "t", "l", "o", "o", "k">>

\* ---- str methods used by the source ----
IsSpace(c) == c \in Whitespace

\* str.strip(): drop leading and trailing whitespace.
RECURSIVE LStrip(_)
LStrip(s) == IF s # <<>> /\ IsSpace(Head(s)) THEN LStrip(Tail(s)) ELSE s

RECURSIVE RStrip(_)
RStrip(s) ==
    IF s # <<>> /\ IsSpace(s[Len(s)]) THEN RStrip(SubSeq(s, 1, Len(s) - 1)) ELSE s

Strip(s) == RStrip(LStrip(s))

\* str.lower() on the ASCII letters.
LowerChar(c) ==
    IF \E n \in 1..Len(UpperCase) : UpperCase[n] = c
    THEN LowerCase[CHOOSE n \in 1..Len(UpperCase) : UpperCase[n] = c]
    ELSE c

Lower(s) == [n \in 1..Len(s) |-> LowerChar(s[n])]

\* "pat in s": pat occurs as a substring of s.
Contains(s, pat) ==
    \E p \in 0..(Len(s) - Len(pat)) : SubSeq(s, p + 1, p + Len(pat)) = pat

\* s.startswith(prefix)
StartsWith(s, prefix) ==
    Len(s) >= Len(prefix) /\ SubSeq(s, 1, Len(prefix)) = prefix

\* s.isdigit(): non-empty and every character a digit.
IsDigit(s) == s # <<>> /\ \A n \in 1..Len(s) : s[n] \in Digits

\* Variant of MatchRun: re.search, the run anywhere in s.
MatchRun_Anywhere(s, c, run) ==
    \E p \in 0..(Len(s) - run) : \A n \in 1..run : s[p + n] = c

\* re.compile(r'c{run,}').match(s): s begins with at least run characters c.
MatchRun(s, c, run) == Len(s) >= run /\ \A n \in 1..run : s[n] = c

SECTION_SEPARATOR_PATTERN(s) == MatchRun(s, "=", SectionRun)
SPEAKER_SEPARATOR_PATTERN(s) == MatchRun(s, "-", SpeakerRun)

\* ' '.join(buffer)
RECURSIVE Join(_)
Join(buf) ==
    IF buf = <<>> THEN <<>>
    ELSE IF Len(buf) = 1 THEN buf[1]
    ELSE buf[1] \o <<" ">> \o Join(Tail(buf))

\* Length of the run of non-whitespace characters s starts with.
RECURSIVE TokenLen(_)
TokenLen(s) ==
    IF s = <<>> \/ IsSpace(Head(s)) THEN 0 ELSE 1 + TokenLen(Tail(s))

\* Variant of Split: text.split(' '), every single blank a separator, so that
\* the empty text gives one (empty) token.
RECURSIVE Split_OnBlank(_)
Split_OnBlank(s) ==
    IF \E p \in 1..Len(s) : s[p] = " "
    THEN LET p == CHOOSE q \in 1..Len(s) :
                      s[q] = " " /\ \A r \in 1..(q - 1) : s[r] # " "
         IN  <<SubSeq(s, 1, p - 1)>> \o Split_OnBlank(SubSeq(s, p + 1, Len(s)))
    ELSE <<s>>

\* text.split(): the maximal runs of non-whitespace characters, in order.
RECURSIVE Split(_)
Split(s) ==
    IF s = <<>> THEN <<>>
    ELSE IF IsSpace(Head(s)) THEN Split(Tail(s))
    ELSE LET n == TokenLen(s)
         IN  <<SubSeq(s, 1, n)>> \o Split(SubSeq(s, n + 1, Len(s)))

\* ---- extract_quarter ----
\* Length of the whitespace run of s that starts at position p (1-based).
RECURSIVE SpaceRun(_, _)
SpaceRun(s, p) ==
    IF p <= Len(s) /\ IsSpace(s[p]) THEN 1 + SpaceRun(s, p + 1) ELSE 0

\* QUARTER_PATTERN r'(Q[1-4]\s+\d{4})' matches s at position p.
QuarterAt(s, p) ==
    /\ p + 1 <= Len(s)
    /\ s[p] = "Q"
    /\ s[p + 1] \in {"1", "2", "3", "4"}
    /\ LET w == SpaceRun(s, p + 2)
       IN  /\ w >= 1
           /\ p + 1 + w + 4 <= Len(s)
           /\ \A d \in 1..4 : s[p + 1 + w + d] \in Digits

\* QUARTER_PATTERN.search(line).group(1): the leftmost match, <<>> for no match.
QuarterSearch(s) ==
    IF \E p \in 1..Len(s) : QuarterAt(s, p)
    THEN LET p == CHOOSE q \in 1..Len(s) :
                      QuarterAt(s, q) /\ \A r \in 1..(q - 1) : ~QuarterAt(s, r)
         IN  SubSeq(s, p, p + 1 + SpaceRun(s, p + 2) + 4)
    ELSE <<>>

\* for line in lines[:20]: the loop from its n-th line on; it returns at
\* the first line with a match and falls through to return '' behind it.
RECURSIVE FirstQuarter(_, _)
FirstQuarter(ls, n) ==
    IF n > Len(ls) \/ n > QuarterWindow THEN <<>>
    ELSE IF \E p \in 1..Len(ls[n]) : QuarterAt(ls[n], p) THEN QuarterSearch(ls[n])
    ELSE FirstQuarter(ls, n + 1)

\* Variant of extract_quarter: the last line with a match gives the quarter.
extract_quarter_LastLine(ls) ==
    LET head == SubSeq(ls, 1, IF Len(ls) < QuarterWindow THEN Len(ls) ELSE QuarterWindow)
        hits == {n \in 1..Len(head) : QuarterSearch(head[n]) # <<>>}
    IN  IF hits = {} THEN <<>>
        ELSE QuarterSearch(head[CHOOSE n \in hits : \A m \in hits : n >= m])

\* Variant of extract_quarter: every line is searched.
extract_quarter_AllLines(ls) ==
    LET hits == {n \in 1..Len(ls) : QuarterSearch(ls[n]) # <<>>}
    IN  IF hits = {} THEN <<>>
        ELSE QuarterSearch(ls[CHOOSE n \in hits : \A m \in hits : n <= m])

\* Variant of extract_quarter: the search stops at the first section marker.
RECURSIVE FirstQuarter_UntilMarker(_, _)
FirstQuarter_UntilMarker(ls, n) ==
    IF n > Len(ls) \/ n > QuarterWindow THEN <<>>
    ELSE IF SECTION_SEPARATOR_PATTERN(ls[n]) THEN <<>>
    ELSE IF \E p \in 1..Len(ls[n]) : QuarterAt(ls[n], p) THEN QuarterSearch(ls[n])
    ELSE FirstQuarter_UntilMarker(ls, n + 1)

extract_quarter_UntilMarker(ls) == FirstQuarter_UntilMarker(ls, 1)

\* The first of the first 20 lines with a match gives the quarter, else ''.
extract_quarter(ls) == FirstQuarter(ls, 1)


\* Variant of determine_speaker_role: the 'Analyst' test made before the titles.
determine_speaker_role_AnalystFirst(speaker_line) ==
    IF Contains(speaker_line, KwOperator) THEN ROLE_OPERATOR
    ELSE IF Contains(speaker_line, KwAnalyst) THEN ROLE_ANALYST
    ELSE IF \E t \in 1..Len(management_titles) :
                Contains(speaker_line, management_titles[t])
         THEN ROLE_MANAGEMENT
    ELSE ROLE_ANALYST

\* ---- determine_speaker_role ----
determine_speaker_role(speaker_line) ==
    IF Contains(speaker_line, KwOperator) THEN ROLE_OPERATOR
    ELSE IF \E t \in 1..Len(management_titles) :
                Contains(speaker_line, management_titles[t])
         THEN ROLE_MANAGEMENT
    ELSE IF Contains(speaker_line, KwAnalyst) THEN ROLE_ANALYST
    ELSE ROLE_ANALYST

\* ---- parse_transcript: the scan ----
At(k) == lines[k + 1]

\* A subscript lines[k] is defined for 0 <= k < len(lines); outside it raises.
InRange(k) == 0 <= k /\ k < Len(lines)

\* while j < len(lines) and not lines[j]: j += 1
RECURSIVE SkipBlank(_)
SkipBlank(j) == IF j < Len(lines) /\ At(j) = <<>> THEN SkipBlank(j + 1) ELSE j


\* Variant of HasLine: the bound test of the lookahead left out.
HasLine_Unchecked(j) == TRUE

\* if j < len(lines): the lookahead found a non-blank line.
HasLine(j) == j < Len(lines)


\* Variant of CaptionSection: the disclaimer caption does not stop the scan.
CaptionSection_NoBreak(next_line_lower) ==
    IF Contains(next_line_lower, KwPresentation) THEN SECTION_PRESENTATION
    ELSE IF Contains(next_line_lower, KwQuestions) \/ Contains(next_line_lower, KwQA)
         THEN SECTION_QA
    ELSE None

\* Variant of CaptionSection: a caption with none of the words opens the
\* Presentation.
CaptionSection_DefaultPresentation(next_line_lower) ==
    IF Contains(next_line_lower, KwQuestions) \/ Contains(next_line_lower, KwQA)
    THEN SECTION_QA
    ELSE IF Contains(next_line_lower, KwDefinitions)
            \/ Contains(next_line_lower, KwDisclaimer)
         THEN "break"
    ELSE SECTION_PRESENTATION

\* Variant of CaptionSection: the definitions/disclaimer test made first.
CaptionSection_EndFirst(next_line_lower) ==
    IF Contains(next_line_lower, KwDefinitions)
       \/ Contains(next_line_lower, KwDisclaimer)
    THEN "break"
    ELSE IF Contains(next_line_lower, KwPresentation) THEN SECTION_PRESENTATION
    ELSE IF Contains(next_line_lower, KwQuestions) \/ Contains(next_line_lower, KwQA)
         THEN SECTION_QA
    ELSE None

\* The caption tests, in the order of the source; "break" stops the scan.
CaptionSection(next_line_lower) ==
    IF Contains(next_line_lower, KwPresentation) THEN SECTION_PRESENTATION
    ELSE IF Contains(next_line_lower, KwQuestions) \/ Contains(next_line_lower, KwQA)
         THEN SECTION_QA
    ELSE IF Contains(next_line_lower, KwDefinitions)
            \/ Contains(next_line_lower, KwDisclaimer)
         THEN "break"
    ELSE None


\* Variant of ClosesBlock: any line after the candidate confirms the header.
ClosesBlock_AnyLine(k) == k < Len(lines)

\* if k < len(lines) and SPEAKER_SEPARATOR_PATTERN.match(lines[k])
ClosesBlock(k) == k < Len(lines) /\ SPEAKER_SEPARATOR_PATTERN(At(k))


\* Variant of ContentBucket: the Operator test made in the Q&A branch only.
ContentBucket_OperatorInQAOnly(line, section, role) ==
    IF line # <<>> /\ section # None
    THEN IF IsDigit(line) \/ StartsWith(line, KwThomson) THEN "none"
         ELSE IF section = SECTION_PRESENTATION THEN "prepared_remarks"
         ELSE IF section = SECTION_QA /\ role # ROLE_OPERATOR
              THEN IF role = ROLE_MANAGEMENT THEN "qa_management"
                   ELSE IF role = ROLE_ANALYST THEN "qa_analysts"
                   ELSE "none"
         ELSE "none"
    ELSE "none"

\* Variant of ContentBucket: no section test, prepared remarks as the default.
ContentBucket_DefaultPrepared(line, section, role) ==
    IF line # <<>> /\ role # ROLE_OPERATOR
    THEN IF IsDigit(line) \/ StartsWith(line, KwThomson) THEN "none"
         ELSE IF section = SECTION_QA
              THEN IF role = ROLE_MANAGEMENT THEN "qa_management"
                   ELSE IF role = ROLE_ANALYST THEN "qa_analysts"
                   ELSE "none"
         ELSE "prepared_remarks"
    ELSE "none"

\* Variant of ContentBucket: in Q&A every speaker but Management is an analyst.
ContentBucket_ElseAnalyst(line, section, role) ==
    IF line # <<>> /\ section # None /\ role # ROLE_OPERATOR
    THEN IF IsDigit(line) \/ StartsWith(line, KwThomson) THEN "none"
         ELSE IF section = SECTION_PRESENTATION THEN "prepared_remarks"
         ELSE IF section = SECTION_QA
              THEN IF role = ROLE_MANAGEMENT THEN "qa_management"
                   ELSE "qa_analysts"
         ELSE "none"
    ELSE "none"

\* Variant of ContentBucket: page numbers and watermark lines are kept.
ContentBucket_NoFilter(line, section, role) ==
    IF line # <<>> /\ section # None /\ role # ROLE_OPERATOR
    THEN IF section = SECTION_PRESENTATION THEN "prepared_remarks"
         ELSE IF section = SECTION_QA
              THEN IF role = ROLE_MANAGEMENT THEN "qa_management"
                   ELSE IF role = ROLE_ANALYST THEN "qa_analysts"
                   ELSE "none"
         ELSE "none"
    ELSE "none"

\* The buffer a line of the else-branch is appended to, "none" for no buffer.
ContentBucket(line, section, role) ==
    IF line # <<>> /\ section # None /\ role # ROLE_OPERATOR
    THEN IF IsDigit(line) \/ StartsWith(line, KwThomson) THEN "none"
         ELSE IF section = SECTION_PRESENTATION THEN "prepared_remarks"
         ELSE IF section = SECTION_QA
              THEN IF role = ROLE_MANAGEMENT THEN "qa_management"
                   ELSE IF role = ROLE_ANALYST THEN "qa_analysts"
                   ELSE "none"
         ELSE "none"
    ELSE "none"

\* An uncaught IndexError leaves parse_transcript without a record.
Raise ==
    /\ pc' = "raised"
    /\ UNCHANGED <<lines, quarter, i, current_section, current_role,
                   prepared_remarks, qa_management, qa_analysts, result>>

\* Variant of Advance: the i += 1 at the end of the iteration left out.
Advance_Stay ==
    /\ i' = i
    /\ UNCHANGED <<lines, quarter, current_section, current_role,
                   prepared_remarks, qa_management, qa_analysts, pc, result>>

\* The marker led to nothing: only i += 1 at the end of the iteration.
Advance ==
    /\ i' = i + 1
    /\ UNCHANGED <<lines, quarter, current_section, current_role,
                   prepared_remarks, qa_management, qa_analysts, pc, result>>

\* Variant of SectionStep: the scan resumes at the caption, not behind it.
SectionStep_ResumeAtCaption ==
    /\ pc = "loop"
    /\ i < Len(lines)
    /\ UNCHANGED driver
    /\ SECTION_SEPARATOR_PATTERN(At(i))
    /\ LET j == SkipBlank(i + 1)
       IN  IF ~HasLine(j) THEN Advance
           ELSE IF ~InRange(j) THEN Raise
           ELSE LET c == CaptionSection(Lower(At(j)))
                IN  IF c = "break"
                    THEN /\ pc' = "break"
                         /\ UNCHANGED <<lines, quarter, i, current_section,
                                        current_role, prepared_remarks,
                                        qa_management, qa_analysts, result>>
                    ELSE IF c = None THEN Advance
                    ELSE /\ current_section' = c
                         /\ i' = j
                         /\ UNCHANGED <<lines, quarter, current_role,
                                        prepared_remarks, qa_management,
                                        qa_analysts, pc, result>>

\* Variant of SectionStep: a new section starts without a role.
SectionStep_ResetsRole ==
    /\ pc = "loop"
    /\ i < Len(lines)
    /\ UNCHANGED driver
    /\ SECTION_SEPARATOR_PATTERN(At(i))
    /\ LET j == SkipBlank(i + 1)
       IN  IF ~HasLine(j) THEN Advance
           ELSE IF ~InRange(j) THEN Raise
           ELSE LET c == CaptionSection(Lower(At(j)))
                IN  IF c = "break"
                    THEN /\ pc' = "break"
                         /\ UNCHANGED <<lines, quarter, i, current_section,
                                        current_role, prepared_remarks,
                                        qa_management, qa_analysts, result>>
                    ELSE IF c = None THEN Advance
                    ELSE /\ current_section' = c
                         /\ current_role' = None
                         /\ i' = j + 1
                         /\ UNCHANGED <<lines, quarter,
                                        prepared_remarks, qa_management,
                                        qa_analysts, pc, result>>

\* Variant of SectionStep: the section only moves forward, a Presentation
\* caption met in Q&A leaves the section at Q&A.
SectionStep_ForwardOnly ==
    /\ pc = "loop"
    /\ i < Len(lines)
    /\ UNCHANGED driver
    /\ SECTION_SEPARATOR_PATTERN(At(i))
    /\ LET j == SkipBlank(i + 1)
       IN  IF ~HasLine(j) THEN Advance
           ELSE IF ~InRange(j) THEN Raise
           ELSE LET c == CaptionSection(Lower(At(j)))
                IN  IF c = "break"
                    THEN /\ pc' = "break"
                         /\ UNCHANGED <<lines, quarter, i, current_section,
                                        current_role, prepared_remarks,
                                        qa_management, qa_analysts, result>>
                    ELSE IF c = None THEN Advance
                    ELSE /\ current_section' =
                               IF current_section = SECTION_QA THEN SECTION_QA
                               ELSE c
                         /\ i' = j + 1
                         /\ UNCHANGED <<lines, quarter, current_role,
                                        prepared_remarks, qa_management,
                                        qa_analysts, pc, result>>

\* Case 1: lines[i] is a section separator.
SectionStep ==
    /\ pc = "loop"
    /\ i < Len(lines)
    /\ UNCHANGED driver
    /\ SECTION_SEPARATOR_PATTERN(At(i))
    /\ LET j == SkipBlank(i + 1)
       IN  IF ~HasLine(j) THEN Advance
           ELSE IF ~InRange(j) THEN Raise
           ELSE LET c == CaptionSection(Lower(At(j)))
                IN  IF c = "break"
                    THEN /\ pc' = "break"
                         /\ UNCHANGED <<lines, quarter, i, current_section,
                                        current_role, prepared_remarks,
                                        qa_management, qa_analysts, result>>
                    ELSE IF c = None THEN Advance
                    ELSE /\ current_section' = c
                         /\ i' = j + 1
                         /\ UNCHANGED <<lines, quarter, current_role,
                                        prepared_remarks, qa_management,
                                        qa_analysts, pc, result>>

\* Variant of SpeakerStep: the scan resumes at the closing marker.
SpeakerStep_ResumeAtClosing ==
    /\ pc = "loop"
    /\ i < Len(lines)
    /\ UNCHANGED driver
    /\ ~SECTION_SEPARATOR_PATTERN(At(i))
    /\ SPEAKER_SEPARATOR_PATTERN(At(i))
    /\ LET j == SkipBlank(i + 1)
       IN  IF ~HasLine(j) THEN Advance
           ELSE IF ~InRange(j) THEN Raise
           ELSE LET speaker_name_line == At(j)
                    k == SkipBlank(j + 1)
                IN  IF ClosesBlock(k)
                    THEN /\ current_role' = determine_speaker_role(speaker_name_line)
                         /\ i' = k
                         /\ UNCHANGED <<lines, quarter, current_section,
                                        prepared_remarks, qa_management,
                                        qa_analysts, pc, result>>
                    ELSE Advance

\* Variant of SpeakerStep: without a closing marker the candidate line is
\* skipped all the same.
SpeakerStep_SkipCandidate ==
    /\ pc = "loop"
    /\ i < Len(lines)
    /\ UNCHANGED driver
    /\ ~SECTION_SEPARATOR_PATTERN(At(i))
    /\ SPEAKER_SEPARATOR_PATTERN(At(i))
    /\ LET j == SkipBlank(i + 1)
       IN  IF ~HasLine(j) THEN Advance
           ELSE IF ~InRange(j) THEN Raise
           ELSE LET speaker_name_line == At(j)
                    k == SkipBlank(j + 1)
                IN  IF ClosesBlock(k)
                    THEN /\ current_role' = determine_speaker_role(speaker_name_line)
                         /\ i' = k + 1
                         /\ UNCHANGED <<lines, quarter, current_section,
                                        prepared_remarks, qa_management,
                                        qa_analysts, pc, result>>
                    ELSE /\ i' = j + 1
                         /\ UNCHANGED <<lines, quarter, current_section,
                                        current_role, prepared_remarks,
                                        qa_management, qa_analysts, pc,
                                        result>>

\* Variant of SpeakerStep: before the first section a header block is
\* skipped without setting the role.
SpeakerStep_OnlyInSection ==
    /\ pc = "loop"
    /\ i < Len(lines)
    /\ UNCHANGED driver
    /\ ~SECTION_SEPARATOR_PATTERN(At(i))
    /\ SPEAKER_SEPARATOR_PATTERN(At(i))
    /\ LET j == SkipBlank(i + 1)
       IN  IF ~HasLine(j) THEN Advance
           ELSE IF ~InRange(j) THEN Raise
           ELSE LET speaker_name_line == At(j)
                    k == SkipBlank(j + 1)
                IN  IF ClosesBlock(k)
                    THEN /\ current_role' = IF current_section = None THEN current_role
                                          ELSE determine_speaker_role(speaker_name_line)
                         /\ i' = k + 1
                         /\ UNCHANGED <<lines, quarter, current_section,
                                        prepared_remarks, qa_management,
                                        qa_analysts, pc, result>>
                    ELSE Advance

\* Variant of SpeakerStep: a closing marker with a header block behind it is
\* left to open that block.
SpeakerStep_ClosingOpensNext ==
    /\ pc = "loop"
    /\ i < Len(lines)
    /\ UNCHANGED driver
    /\ ~SECTION_SEPARATOR_PATTERN(At(i))
    /\ SPEAKER_SEPARATOR_PATTERN(At(i))
    /\ LET j == SkipBlank(i + 1)
       IN  IF ~HasLine(j) THEN Advance
           ELSE IF ~InRange(j) THEN Raise
           ELSE LET speaker_name_line == At(j)
                    k == SkipBlank(j + 1)
                IN  IF ClosesBlock(k)
                    THEN /\ current_role' = determine_speaker_role(speaker_name_line)
                         /\ i' = IF ClosesBlock(SkipBlank(SkipBlank(k + 1) + 1))
                                 /\ SkipBlank(k + 1) < Len(lines)
                                 THEN k ELSE k + 1
                         /\ UNCHANGED <<lines, quarter, current_section,
                                        prepared_remarks, qa_management,
                                        qa_analysts, pc, result>>
                    ELSE Advance

\* Variant of SpeakerStep: a separator line is no header line.
SpeakerStep_ProseCandidate ==
    /\ pc = "loop"
    /\ i < Len(lines)
    /\ UNCHANGED driver
    /\ ~SECTION_SEPARATOR_PATTERN(At(i))
    /\ SPEAKER_SEPARATOR_PATTERN(At(i))
    /\ LET j == SkipBlank(i + 1)
       IN  IF ~HasLine(j) THEN Advance
           ELSE IF ~InRange(j) THEN Raise
           ELSE LET speaker_name_line == At(j)
                    k == SkipBlank(j + 1)
                IN  IF /\ ClosesBlock(k)
                       /\ ~SECTION_SEPARATOR_PATTERN(speaker_name_line)
                       /\ ~SPEAKER_SEPARATOR_PATTERN(speaker_name_line)
                    THEN /\ current_role' = determine_speaker_role(speaker_name_line)
                         /\ i' = k + 1
                         /\ UNCHANGED <<lines, quarter, current_section,
                                        prepared_remarks, qa_management,
                                        qa_analysts, pc, result>>
                    ELSE Advance

\* Case 2: lines[i] is a speaker separator (and no section separator).
SpeakerStep ==
    /\ pc = "loop"
    /\ i < Len(lines)
    /\ UNCHANGED driver
    /\ ~SECTION_SEPARATOR_PATTERN(At(i))
    /\ SPEAKER_SEPARATOR_PATTERN(At(i))
    /\ LET j == SkipBlank(i + 1)
       IN  IF ~HasLine(j) THEN Advance
           ELSE IF ~InRange(j) THEN Raise
           ELSE LET speaker_name_line == At(j)
                    k == SkipBlank(j + 1)
                IN  IF ClosesBlock(k)
                    THEN /\ current_role' = determine_speaker_role(speaker_name_line)
                         /\ i' = k + 1
                         /\ UNCHANGED <<lines, quarter, current_section,
                                        prepared_remarks, qa_management,
                                        qa_analysts, pc, result>>
                    ELSE Advance

\* Variant of ContentStep: a kept line is put at the front of its buffer.
ContentStep_Prepend ==
    /\ pc = "loop"
    /\ i < Len(lines)
    /\ UNCHANGED driver
    /\ ~SECTION_SEPARATOR_PATTERN(At(i))
    /\ ~SPEAKER_SEPARATOR_PATTERN(At(i))
    /\ LET line == At(i)
           b == ContentBucket(line, current_section, current_role)
       IN  /\ prepared_remarks' =
                 IF b = "prepared_remarks" THEN <<line>> \o prepared_remarks
                 ELSE prepared_remarks
           /\ qa_management' =
                 IF b = "qa_management" THEN <<line>> \o qa_management
                 ELSE qa_management
           /\ qa_analysts' =
                 IF b = "qa_analysts" THEN <<line>> \o qa_analysts
                 ELSE qa_analysts
    /\ i' = i + 1
    /\ UNCHANGED <<lines, quarter, current_section, current_role, pc, result>>

\* Case 3: any other line, blank lines included.
ContentStep ==
    /\ pc = "loop"
    /\ i < Len(lines)
    /\ UNCHANGED driver
    /\ ~SECTION_SEPARATOR_PATTERN(At(i))
    /\ ~SPEAKER_SEPARATOR_PATTERN(At(i))
    /\ LET line == At(i)
           b == ContentBucket(line, current_section, current_role)
       IN  /\ prepared_remarks' =
                 IF b = "prepared_remarks" THEN Append(prepared_remarks, line)
                 ELSE prepared_remarks
           /\ qa_management' =
                 IF b = "qa_management" THEN Append(qa_management, line)
                 ELSE qa_management
           /\ qa_analysts' =
                 IF b = "qa_analysts" THEN Append(qa_analysts, line)
                 ELSE qa_analysts
    /\ i' = i + 1
    /\ UNCHANGED <<lines, quarter, current_section, current_role, pc, result>>


\* Variant of WordCount: the entries of the buffer counted, not their words.
WordCount_Lines(buf) == Len(buf)

\* text.split() counted: len(' '.join(buffer).split())
WordCount(buf) == Len(Split(Join(buf)))

\* The record of the return statement.
Record ==
    [ticker |-> ticker,
     quarter |-> quarter,
     prepared_remarks |-> Join(prepared_remarks),
     qa_management |-> Join(qa_management),
     qa_analysts |-> Join(qa_analysts),
     word_count_prepared_remarks |-> WordCount(prepared_remarks),
     word_count_qa_management |-> WordCount(qa_management),
     word_count_qa_analysts |-> WordCount(qa_analysts)]

\* The loop is left, by its condition or by break, and the record is returned.
Return ==
    /\ \/ pc = "break"
       \/ pc = "loop" /\ ~(i < Len(lines))
    /\ result' = <<Record>>
    /\ pc' = "done"
    /\ UNCHANGED driver
    /\ UNCHANGED <<lines, quarter, i, current_section, current_role,
                   prepared_remarks, qa_management, qa_analysts>>

\* ---- the MU parser: parse_transcript of src/parse_mu_transcripts.py ----
\* Its locals are the fields of the record mu, under the names of the
\* source.  mu.lines holds the lines as readlines() returns them: they are
\* stripped where the source strips them, at each access.

\* The words the MU parser looks for, in the spelling of its source.
KwCapPresentation == <<"P", "r", "e", "s", "e", "n", "t", "a", "t", "i", "o", "n">>
KwCapQuestions == <<"Q", "u", "e", "s", "t", "i", "o", "n", "s", " ", "a", "n", "d", " ", "A", "n", "s", "w", "e", "r", "s">>
KwCapDefinitions == <<"D", "e", "f", "i", "n", "i", "t", "i", "o", "n", "s">>
KwCapDisclaimer == <<"D", "i", "s", "c", "l", "a", "i", "m", "e", "r">>
KwMicron == <<"M", "i", "c", "r", "o", "n">>

\* No call of the MU parser is in progress.
MU_Idle ==
    [lines |-> <<>>, quarter |-> <<>>, i |-> 0,
     current_section |-> None, current_speaker_type |-> None,
     prepared_remarks |-> <<>>, qa_management |-> <<>>, qa_analysts |-> <<>>,
     pc |-> "idle", result |-> <<>>]

\* The locals before the loop: the lines as read, the quarter of the first
\* of the first 20 lines with a match, empty accumulators, i = 0.
MU_Start(raw) ==
    [lines |-> raw, quarter |-> FirstQuarter(raw, 1), i |-> 0,
     current_section |-> None, current_speaker_type |-> None,
     prepared_remarks |-> <<>>, qa_management |-> <<>>, qa_analysts |-> <<>>,
     pc |-> "loop", result |-> <<>>]

\* lines[k].strip()
MU_Line(k) == Strip(mu.lines[k + 1])

\* while j < len(lines) and not lines[j].strip(): j += 1
RECURSIVE MU_SkipBlank(_)
MU_SkipBlank(j) ==
    IF j < Len(mu.lines) /\ MU_Line(j) = <<>> THEN MU_SkipBlank(j + 1) ELSE j

\* The if/elif chain on the caption: the section it names, "break" for
\* the end of the relevant content, None for any other line.
MU_CaptionSection(next_line) ==
    IF Contains(next_line, KwCapPresentation) THEN "Presentation"
    ELSE IF Contains(next_line, KwCapQuestions) THEN "Q&A"
    ELSE IF Contains(next_line, KwCapDefinitions)
            \/ Contains(next_line, KwCapDisclaimer) THEN "break"
    ELSE None

\* The speaker type of a confirmed header.
MU_SpeakerType(speaker_info) ==
    IF Contains(speaker_info, KwOperator) THEN "Operator"
    ELSE IF Contains(speaker_info, KwMicron) THEN "Management"
    ELSE "Analyst"

\* The accumulator the content branch appends the line to, "none" for a
\* line it drops.
MU_ContentBucket(line) ==
    IF line # <<>> /\ mu.current_section # None
       /\ mu.current_speaker_type # "Operator"
    THEN IF IsDigit(line) \/ StartsWith(line, KwThomson) THEN "none"
         ELSE IF mu.current_section = "Presentation" THEN "prepared_remarks"
         ELSE IF mu.current_section = "Q&A"
              THEN IF mu.current_speaker_type = "Management" THEN "qa_management"
                   ELSE IF mu.current_speaker_type = "Analyst" THEN "qa_analysts"
                   ELSE "none"
         ELSE "none"
    ELSE "none"

\* Variant of MU_SectionStep: the scan resumes right behind the marker.
MU_SectionStep_ResumeBehindMarker ==
    /\ mu.pc = "loop"
    /\ mu.i < Len(mu.lines)
    /\ UNCHANGED generic
    /\ SECTION_SEPARATOR_PATTERN(MU_Line(mu.i))
    /\ LET j == MU_SkipBlank(mu.i + 1)
       IN  IF j < Len(mu.lines)
           THEN LET c == MU_CaptionSection(MU_Line(j))
                IN  IF c = "break" THEN mu' = [mu EXCEPT !.pc = "break"]
                    ELSE IF c = None THEN mu' = [mu EXCEPT !.i = mu.i + 1]
                    ELSE mu' = [mu EXCEPT !.current_section = c,
                                          !.i = mu.i + 1]
           ELSE mu' = [mu EXCEPT !.i = mu.i + 1]

\* Detect Section Changes: lines[i] is a section separator.
MU_SectionStep ==
    /\ mu.pc = "loop"
    /\ mu.i < Len(mu.lines)
    /\ UNCHANGED generic
    /\ SECTION_SEPARATOR_PATTERN(MU_Line(mu.i))
    /\ LET j == MU_SkipBlank(mu.i + 1)
       IN  IF j < Len(mu.lines)
           THEN LET c == MU_CaptionSection(MU_Line(j))
                IN  IF c = "break" THEN mu' = [mu EXCEPT !.pc = "break"]
                    ELSE IF c = None THEN mu' = [mu EXCEPT !.i = mu.i + 1]
                    ELSE mu' = [mu EXCEPT !.current_section = c,
                                          !.i = j + 1]
           ELSE mu' = [mu EXCEPT !.i = mu.i + 1]

\* Detect Speaker Changes: lines[i] is a speaker separator and no section
\* separator.
MU_SpeakerStep ==
    /\ mu.pc = "loop"
    /\ mu.i < Len(mu.lines)
    /\ UNCHANGED generic
    /\ ~SECTION_SEPARATOR_PATTERN(MU_Line(mu.i))
    /\ SPEAKER_SEPARATOR_PATTERN(MU_Line(mu.i))
    /\ LET j == MU_SkipBlank(mu.i + 1)
       IN  IF j < Len(mu.lines)
           THEN LET k == MU_SkipBlank(j + 1)
                IN  IF k < Len(mu.lines) /\ SPEAKER_SEPARATOR_PATTERN(MU_Line(k))
                    THEN mu' = [mu EXCEPT
                                  !.current_speaker_type = MU_SpeakerType(MU_Line(j)),
                                  !.i = k + 1]
                    ELSE mu' = [mu EXCEPT !.i = mu.i + 1]
           ELSE mu' = [mu EXCEPT !.i = mu.i + 1]

\* Content Processing: any other line, blank lines included.
MU_ContentStep ==
    /\ mu.pc = "loop"
    /\ mu.i < Len(mu.lines)
    /\ UNCHANGED generic
    /\ ~SECTION_SEPARATOR_PATTERN(MU_Line(mu.i))
    /\ ~SPEAKER_SEPARATOR_PATTERN(MU_Line(mu.i))
    /\ LET line == MU_Line(mu.i)
           b == MU_ContentBucket(line)
       IN  mu' = [mu EXCEPT
                    !.prepared_remarks =
                        IF b = "prepared_remarks" THEN Append(@, line) ELSE @,
                    !.qa_management =
                        IF b = "qa_management" THEN Append(@, line) ELSE @,
                    !.qa_analysts =
                        IF b = "qa_analysts" THEN Append(@, line) ELSE @,
                    !.i = mu.i + 1]

\* The record of the return statement of the MU parser.
MU_Record ==
    [ticker |-> "MU",
     quarter |-> mu.quarter,
     prepared_remarks |-> Join(mu.prepared_remarks),
     qa_management |-> Join(mu.qa_management),
     qa_analysts |-> Join(mu.qa_analysts),
     word_count_prepared_remarks |-> WordCount(mu.prepared_remarks),
     word_count_qa_management |-> WordCount(mu.qa_management),
     word_count_qa_analysts |-> WordCount(mu.qa_analysts)]

\* The loop of the MU parser is left and its record is returned.
MU_Return ==
    /\ \/ mu.pc = "break"
       \/ mu.pc = "loop" /\ ~(mu.i < Len(mu.lines))
    /\ mu' = [mu EXCEPT !.result = <<MU_Record>>, !.pc = "done"]
    /\ UNCHANGED generic

\* ---- inputs: the files parse_transcript reads ----
RawLine(text) == text \o <<"\n">>
SectionMarker == [n \in 1..SectionRun |-> "="]
SpeakerMarker == [n \in 1..SpeakerRun |-> "-"]
RawBlank == <<"\n">>
RawIndented(text) == <<" ", " ">> \o text \o <<" ", "\n">>

\* The pieces a generated transcript is made of: single lines, a section
\* marker with its caption, a speaker header block, prose around a dash run.
Blocks ==
    { <<RawBlank>>,
      <<RawLine(SectionMarker)>>,
      <<RawLine(SpeakerMarker)>>,
      <<RawLine(TxtRevenue)>>,
      <<RawLine(TxtPageNumber)>>,
      <<RawLine(TxtPresentation)>>,
      <<RawLine(TxtOperator)>>,
      <<RawLine(SectionMarker), RawLine(TxtPresentation)>>,
      <<RawLine(SectionMarker), RawBlank, RawIndented(TxtQuestions)>>,
      <<RawLine(SectionMarker), RawLine(TxtDisclaimer)>>,
      <<RawLine(SpeakerMarker), RawLine(TxtOperator), RawLine(SpeakerMarker)>>,
      <<RawLine(SpeakerMarker), RawLine(TxtJaneDoe), RawLine(SpeakerMarker)>>,
      <<RawLine(SpeakerMarker), RawBlank, RawLine(TxtJohnRoe), RawBlank,
        RawLine(SpeakerMarker)>>,
      <<RawLine(TxtRevenue), RawLine(SpeakerMarker), RawLine(TxtNextQuestion)>> }

RECURSIVE Flatten(_)
Flatten(bs) == IF bs = <<>> THEN <<>> ELSE Head(bs) \o Flatten(Tail(bs))

BlockInputs ==
    UNION { { Flatten(bs) : bs \in [1..n -> Blocks] } : n \in 0..MaxBlocks }

\* The transcript of the end-to-end scenario: Presentation, a management
\* speaker, one content line, then an Operator block and its line.
Scenario ==
    << RawLine(SectionMarker), RawBlank, RawLine(TxtPresentation),
       RawLine(SpeakerMarker), RawLine(TxtJaneDoe), RawLine(SpeakerMarker),
       RawLine(TxtRevenue),
       RawLine(SpeakerMarker), RawLine(TxtOperator), RawLine(SpeakerMarker),
       RawLine(TxtNextQuestion) >>

\* Header lines for the role classifier: every title keyword on its own and
\* lines in which two of the tests apply.
HeaderTexts ==
    { management_titles[t] : t \in 1..Len(management_titles) }
    \cup { TxtOperator, TxtOperatorCEO, TxtAnalystRelations, TxtAnnLee,
           TxtLowerOperator, TxtJohnRoe }

HeaderInputs ==
    { << RawLine(SectionMarker), RawLine(TxtQuestions),
         RawLine(SpeakerMarker), RawLine(h), RawLine(SpeakerMarker),
         RawLine(TxtRevenue) >> : h \in HeaderTexts }

\* A transcript that goes on after its disclaimer: a second Presentation
\* caption and a content line follow the terminating caption.
AfterDisclaimer ==
    << RawLine(SectionMarker), RawLine(TxtPresentation), RawLine(TxtRevenue),
       RawLine(SectionMarker), RawLine(TxtDisclaimer),
       RawLine(SectionMarker), RawLine(TxtPresentation),
       RawLine(SpeakerMarker), RawLine(TxtJaneDoe), RawLine(SpeakerMarker),
       RawLine(TxtNextQuestion) >>

\* n blank lines.
Padding(n) == [k \in 1..n |-> RawBlank]

\* Transcripts for the quarter search: a token after a blank line, on a later
\* line than a line without one, with two blanks inside, twice on a line,
\* look-alikes only, and a token right inside and right outside the window.
QuarterInputs ==
    { << RawBlank, RawLine(TxtQuarterLine), RawLine(TxtRevenue) >>,
      << RawLine(TxtNoQuarter), RawLine(TxtQuarterLine) >>,
      << RawLine(TxtQuarterWide), RawLine(TxtQuarterLine) >>,
      << RawLine(TxtQuarterTwo), RawLine(TxtRevenue) >>,
      << RawLine(TxtNoQuarter), RawLine(TxtRevenue) >>,
      Padding(QuarterWindow - 1) \o << RawLine(TxtQuarterLine) >>,
      Padding(QuarterWindow) \o << RawLine(TxtQuarterLine) >>,
      << RawLine(TxtRevenue), RawLine(TxtQuarterWide) >>
          \o Padding(QuarterWindow - 2) \o << RawLine(TxtQuarterLine) >> }

\* Transcripts with page numbers and watermark lines among the content of
\* the Presentation and of the Q&A, next to lines that only look like them.
ArtifactInputs ==
    { << RawLine(SectionMarker), RawLine(TxtPresentation),
         RawLine(SpeakerMarker), RawLine(TxtJaneDoe), RawLine(SpeakerMarker),
         RawLine(TxtRevenue), RawLine(TxtPageNumber), RawLine(TxtWatermark),
         RawLine(TxtYearNote), RawLine(TxtSourceNote) >>,
      << RawLine(SectionMarker), RawLine(TxtQuestions),
         RawLine(SpeakerMarker), RawLine(TxtJaneDoe), RawLine(SpeakerMarker),
         RawLine(TxtRevenue), RawLine(TxtWatermark), RawLine(TxtPageNumber),
         RawLine(TxtNextQuestion) >>,
      << RawLine(SectionMarker), RawLine(TxtQuestions),
         RawLine(SpeakerMarker), RawLine(TxtJohnRoe), RawLine(SpeakerMarker),
         RawLine(TxtPageNumber), RawLine(TxtRevenue), RawLine(TxtWatermark) >> }

\* Lines around the separator patterns: a run one short, a run with text
\* behind it, a run behind other text.
Run(c, n) == [k \in 1..n |-> c]
TxtShortDashes == Run("-", SpeakerRun - 1)
TxtShortEquals == Run("=", SectionRun - 1)
TxtDashesThenText == Run("-", SpeakerRun + 1) \o <<" ", "e", "n", "d">>
TxtEqualsThenText == Run("=", SectionRun) \o <<"a", "b", "c">>
TxtTextThenDashes == <<"x">> \o Run("-", SpeakerRun)
TxtTextThenEquals == <<"x", " ">> \o Run("=", SectionRun + 1)

\* Transcripts in which such lines stand where content is appended, and in
\* which indented markers and markers with trailing text do the marking.
SeparatorInputs ==
    { << RawLine(SectionMarker), RawLine(TxtPresentation),
         RawLine(SpeakerMarker), RawLine(TxtJaneDoe), RawLine(SpeakerMarker),
         RawLine(TxtShortDashes), RawLine(TxtRevenue), RawLine(TxtShortEquals),
         RawLine(TxtTextThenDashes), RawLine(TxtTextThenEquals) >>,
      << RawIndented(SectionMarker), RawLine(TxtPresentation),
         RawIndented(SpeakerMarker), RawLine(TxtJaneDoe),
         RawLine(TxtDashesThenText), <<" ", "\t", "\n">>, RawLine(TxtRevenue) >>,
      << RawLine(TxtEqualsThenText), RawLine(TxtPresentation),
         RawLine(TxtRevenue), RawLine(TxtDashesThenText),
         RawLine(TxtNextQuestion), RawLine(TxtEqualsThenText),
         RawLine(TxtRevenue) >> }

\* Captions: other spellings of the section words, a caption holding the
\* words of both sections, and captions that are themselves separator lines.
TxtQASession == <<"Q", "&", "A", " ", "S", "e", "s", "s", "i", "o", "n">>
TxtUpperPresentation == <<"P", "R", "E", "S", "E", "N", "T", "A", "T", "I", "O", "N">>
TxtBothCaption == <<"P", "r", "e", "s", "e", "n", "t", "a", "t", "i", "o", "n", " ", "a", "n", "d", " ", "Q", "&", "A">>
TxtMarkerCaption == Run("=", SectionRun) \o <<" ", "P", "r", "e", "s", "e", "n", "t", "a", "t", "i", "o", "n">>
TxtDashCaption == Run("-", SpeakerRun) \o <<" ", "q", "&", "a">>

CaptionInputs ==
    { << RawLine(SectionMarker), RawLine(TxtQASession),
         RawLine(SpeakerMarker), RawLine(TxtJohnRoe), RawLine(SpeakerMarker),
         RawLine(TxtNextQuestion) >>,
      << RawLine(SectionMarker), RawBlank, RawBlank,
         RawIndented(TxtUpperPresentation), RawLine(TxtRevenue) >>,
      << RawLine(SectionMarker), RawLine(TxtQuestions),
         RawLine(SectionMarker), RawLine(TxtMarkerCaption),
         RawLine(TxtRevenue) >>,
      << RawLine(SectionMarker), RawLine(TxtBothCaption),
         RawLine(TxtRevenue) >>,
      << RawLine(SectionMarker), RawLine(TxtPresentation),
         RawLine(SpeakerMarker), RawLine(TxtJaneDoe), RawLine(SpeakerMarker),
         RawLine(SectionMarker), RawLine(TxtDashCaption), RawLine(TxtJohnRoe),
         RawLine(SpeakerMarker), RawLine(TxtNextQuestion) >> }

\* Header blocks that share a marker, a marker as the candidate line, and
\* markers with no closing marker behind the candidate.
SpeakerInputs ==
    { << RawLine(SectionMarker), RawLine(TxtQuestions),
         RawLine(SpeakerMarker), RawLine(TxtJaneDoe), RawLine(SpeakerMarker),
         RawLine(TxtJohnRoe), RawLine(SpeakerMarker), RawLine(TxtNextQuestion) >>,
      << RawLine(SectionMarker), RawLine(TxtPresentation),
         RawLine(SpeakerMarker), RawLine(SpeakerMarker), RawLine(SpeakerMarker),
         RawLine(TxtRevenue) >>,
      << RawLine(SectionMarker), RawLine(TxtQuestions),
         RawLine(SpeakerMarker), RawLine(TxtJohnRoe), RawLine(SpeakerMarker),
         RawLine(TxtNextQuestion), RawLine(SpeakerMarker), RawBlank,
         RawLine(TxtJaneDoe), RawLine(TxtRevenue) >>,
      << RawLine(SectionMarker), RawLine(TxtPresentation),
         RawLine(SpeakerMarker), RawLine(SectionMarker), RawLine(TxtQuestions),
         RawLine(TxtRevenue) >> }

\* The transcripts of the files main() finds: a prepared-remarks call and a
\* Q&A call, each with its quarter in the first line, and a call without a
\* quarter.
TranscriptA ==
    << RawLine(TxtQuarterLine), RawLine(SectionMarker),
       RawLine(TxtPresentation), RawLine(SpeakerMarker), RawLine(TxtJaneDoe),
       RawLine(SpeakerMarker), RawLine(TxtRevenue) >>
TranscriptB ==
    << RawLine(TxtQuarterTwo), RawLine(SectionMarker), RawLine(TxtQuestions),
       RawLine(SpeakerMarker), RawLine(TxtJohnRoe), RawLine(SpeakerMarker),
       RawLine(TxtNextQuestion) >>
TranscriptN ==
    << RawLine(SectionMarker), RawLine(TxtPresentation), RawLine(TxtRevenue) >>

\* An Operator block before the first caption, and a manager's block
\* inside the Presentation that follows.
CarryInputs ==
    { << RawLine(SpeakerMarker), RawLine(TxtOperator), RawLine(SpeakerMarker),
         RawLine(TxtNextQuestion),
         RawLine(SectionMarker), RawLine(TxtPresentation), RawLine(TxtRevenue),
         RawLine(TxtNextQuestion),
         RawLine(SpeakerMarker), RawLine(TxtJaneDoe), RawLine(SpeakerMarker),
         RawLine(TxtRevenue) >> }

\* Captions with the words of two kinds of caption.
TxtPresentationDisclaimer == <<"P", "r", "e", "s", "e", "n", "t", "a", "t", "i", "o", "n", " ", "D", "i", "s", "c", "l", "a", "i", "m", "e", "r">>
TxtDefinitionsFirst == <<"D", "e", "f", "i", "n", "i", "t", "i", "o", "n", "s", " ", "u", "s", "e", "d", " ", "i", "n", " ", "t", "h", "i", "s", " ", "p", "r", "e", "s", "e", "n", "t", "a", "t", "i", "o", "n">>
TxtQADisclaimer == <<"Q", "&", "A", " ", "a", "n", "d", " ", "D", "i", "s", "c", "l", "a", "i", "m", "e", "r">>

OrderInputs ==
    { << RawLine(SectionMarker), RawLine(TxtPresentationDisclaimer),
         RawLine(TxtRevenue) >>,
      << RawLine(SectionMarker), RawLine(TxtDefinitionsFirst),
         RawLine(TxtRevenue) >>,
      << RawLine(SectionMarker), RawLine(TxtQADisclaimer),
         RawLine(SpeakerMarker), RawLine(TxtJohnRoe), RawLine(SpeakerMarker),
         RawLine(TxtNextQuestion) >> }

\* Header lines between markers that could pair up in two ways.
ChainInputs ==
    { << RawLine(SectionMarker), RawLine(TxtQuestions),
         RawLine(SpeakerMarker), RawLine(TxtJohnRoe), RawLine(SpeakerMarker),
         RawLine(TxtJaneDoe), RawLine(SpeakerMarker), RawLine(TxtRevenue),
         RawLine(TxtNextQuestion) >>,
      << RawLine(SectionMarker), RawLine(TxtPresentation),
         RawLine(SpeakerMarker), RawLine(TxtOperator), RawLine(SpeakerMarker),
         RawLine(TxtJaneDoe), RawLine(SpeakerMarker), RawLine(TxtJohnRoe),
         RawLine(SpeakerMarker), RawLine(TxtRevenue) >> }

\* Separator lines in the place of the header line: a bare speaker marker
\* between blank lines, a section marker, and speaker markers with a word
\* behind the run.
TxtDashOperator == Run("-", SpeakerRun) \o <<" ", "O", "p", "e", "r", "a", "t", "o", "r">>
TxtDashCEO == Run("-", SpeakerRun) \o <<" ", "C", "E", "O">>

MarkerHeaderInputs ==
    { << RawLine(SectionMarker), RawLine(TxtPresentation),
         RawLine(SpeakerMarker), RawLine(SectionMarker),
         RawLine(TxtDashCaption), RawLine(TxtRevenue) >>,
      << RawLine(SectionMarker), RawLine(TxtPresentation),
         RawLine(SpeakerMarker), RawLine(TxtDashOperator),
         RawLine(SpeakerMarker), RawLine(TxtRevenue) >>,
      << RawLine(SectionMarker), RawLine(TxtQuestions),
         RawLine(SpeakerMarker), RawLine(TxtDashCEO),
         RawLine(SpeakerMarker), RawLine(TxtRevenue) >>,
      << RawLine(SectionMarker), RawLine(TxtQuestions),
         RawLine(SpeakerMarker), RawBlank, RawLine(SpeakerMarker), RawBlank,
         RawLine(SpeakerMarker), RawLine(TxtNextQuestion) >> }

\* A transcript that enters Q&A and then meets a Presentation caption again.
ReturnInputs ==
    { << RawLine(SectionMarker), RawLine(TxtPresentation), RawLine(TxtRevenue),
         RawLine(SectionMarker), RawLine(TxtQuestions),
         RawLine(SpeakerMarker), RawLine(TxtJohnRoe), RawLine(SpeakerMarker),
         RawLine(TxtNextQuestion),
         RawLine(SectionMarker), RawLine(TxtPresentation),
         RawLine(TxtYearNote) >> }

\* Transcripts whose only quarter line lies where the scan keeps nothing:
\* before the first section caption, inside an Operator block, and behind a
\* disclaimer caption that ends the scan.
SegmentInputs ==
    { << RawLine(TxtQuarterLine), RawLine(SectionMarker),
         RawLine(TxtPresentation) >>,
      << RawLine(SectionMarker), RawLine(TxtPresentation),
         RawLine(SpeakerMarker), RawLine(TxtOperator), RawLine(SpeakerMarker),
         RawLine(TxtQuarterLine) >>,
      << RawLine(SectionMarker), RawLine(TxtDisclaimer),
         RawLine(TxtQuarterLine) >> }

RawInputs ==
    BlockInputs \cup {Scenario, AfterDisclaimer} \cup HeaderInputs
    \cup QuarterInputs \cup ArtifactInputs \cup SeparatorInputs
    \cup CaptionInputs \cup SpeakerInputs
    \cup {TranscriptA, TranscriptB, TranscriptN} \cup CarryInputs
    \cup OrderInputs \cup ChainInputs \cup MarkerHeaderInputs
    \cup ReturnInputs \cup SegmentInputs

\* lines = [line.strip() for line in f.readlines()]
RECURSIVE ReadLines(_)
ReadLines(raw) ==
    IF raw = <<>> THEN <<>>
    ELSE <<Strip(Head(raw))>> \o ReadLines(Tail(raw))

\* parse_transcript called once, outside main(), for the ticker AAPL.
OneCall ==
    /\ ticker = "AAPL"
    /\ tickers = <<>>
    /\ ticker_idx = 0
    /\ files = <<>>
    /\ file_idx = 0
    /\ parsed_data_list = <<>>
    /\ warnings = <<>>
    /\ saved = <<>>
    /\ dpc = "none"
    /\ mu = MU_Idle

\* Variant of Init: the scan starts in the Presentation section.
Init_StartsInPresentation ==
    /\ \E raw \in RawInputs : lines = ReadLines(raw)
    /\ quarter = extract_quarter(lines)
    /\ prepared_remarks = <<>>
    /\ qa_management = <<>>
    /\ qa_analysts = <<>>
    /\ current_section = SECTION_PRESENTATION
    /\ current_role = None
    /\ i = 0
    /\ pc = "loop"
    /\ result = <<>>
    /\ OneCall

\* ---- specification ----
Init ==
    /\ \E raw \in RawInputs : lines = ReadLines(raw)
    /\ quarter = extract_quarter(lines)
    /\ prepared_remarks = <<>>
    /\ qa_management = <<>>
    /\ qa_analysts = <<>>
    /\ current_section = None
    /\ current_role = None
    /\ i = 0
    /\ pc = "loop"
    /\ result = <<>>
    /\ OneCall

Next == SectionStep \/ SpeakerStep \/ ContentStep \/ Return

Spec == Init /\ [][Next]_vars

\* The transcripts on which the scan is followed to its end: every block
\* alone, every two blocks, and the transcripts with lookahead jumps, stray
\* markers and a terminating caption.
FairInputs ==
    {b \o c : b \in Blocks \cup {<<>>}, c \in Blocks \cup {<<>>}}
    \cup {Scenario, AfterDisclaimer}
    \cup SeparatorInputs \cup CaptionInputs \cup SpeakerInputs

InitFair ==
    /\ \E raw \in FairInputs : lines = ReadLines(raw)
    /\ quarter = extract_quarter(lines)
    /\ prepared_remarks = <<>>
    /\ qa_management = <<>>
    /\ qa_analysts = <<>>
    /\ current_section = None
    /\ current_role = None
    /\ i = 0
    /\ pc = "loop"
    /\ result = <<>>
    /\ OneCall

\* One iteration of the while loop.
Iterate == SectionStep \/ SpeakerStep \/ ContentStep

\* parse_transcript is sequential code: inside its loop it takes the next
\* iteration as long as there is one.
SpecFair == InitFair /\ [][Next]_vars /\ WF_vars(Iterate)

\* ---- the two parsers side by side ----
\* Headers that name Micron: without a title keyword, with one, and with
\* "Operator".
TxtMicronOnly == <<"A", "n", "n", " ", "L", "e", "e", ",", " ", "M", "i", "c", "r", "o", "n">>
TxtMicronCEO == <<"R", "a", "j", " ", "N", "a", "i", "r", ",", " ", "M", "i", "c", "r", "o", "n", " ", "-", " ", "C", "E", "O">>
TxtMicronOperator == <<"O", "p", "e", "r", "a", "t", "o", "r", ",", " ", "M", "i", "c", "r", "o", "n">>

MicronInputs ==
    { << RawLine(SectionMarker), RawLine(TxtQuestions),
         RawLine(SpeakerMarker), RawLine(h), RawLine(SpeakerMarker),
         RawLine(TxtRevenue) >> :
         h \in {TxtMicronOnly, TxtMicronCEO, TxtMicronOperator} }
    \cup
    { << RawIndented(TxtQuarterLine), RawLine(SectionMarker), RawBlank,
         RawIndented(TxtPresentation),
         RawIndented(SpeakerMarker), RawBlank, RawIndented(TxtMicronCEO),
         RawIndented(SpeakerMarker), RawIndented(TxtRevenue),
         RawLine(SectionMarker), RawLine(TxtQuestions),
         RawLine(SpeakerMarker), RawLine(TxtJaneDoe), RawLine(SpeakerMarker),
         RawLine(TxtNextQuestion), RawLine(TxtPageNumber),
         RawLine(SectionMarker), RawLine(TxtDefinitions),
         RawLine(TxtYearNote) >> }

\* The files both parsers are run on.
PairInputs ==
    {b \o c : b \in Blocks \cup {<<>>}, c \in Blocks \cup {<<>>}}
    \cup {Scenario, AfterDisclaimer} \cup HeaderInputs \cup QuarterInputs
    \cup ArtifactInputs \cup SeparatorInputs \cup CaptionInputs
    \cup SpeakerInputs \cup OrderInputs \cup MarkerHeaderInputs
    \cup ReturnInputs \cup SegmentInputs \cup MicronInputs

\* How far a scan has come: the index it is about to dispatch, and behind
\* every index the break and then the return.
Position(p, idx) ==
    IF p = "loop" THEN idx
    ELSE IF p = "break" THEN Len(lines) + 1
    ELSE Len(lines) + 2

\* The MU parser has not yet made the iteration the generic parser made last.
Behind == Position(mu.pc, mu.i) < Position(pc, i)

\* Both parsers are called on the same file: each reads it with readlines()
\* and sets its locals.
InitPair ==
    /\ \E raw \in PairInputs :
          /\ lines = ReadLines(raw)
          /\ mu = MU_Start(raw)
    /\ quarter = extract_quarter(lines)
    /\ prepared_remarks = <<>>
    /\ qa_management = <<>>
    /\ qa_analysts = <<>>
    /\ current_section = None
    /\ current_role = None
    /\ i = 0
    /\ pc = "loop"
    /\ result = <<>>
    /\ ticker = "AAPL"
    /\ tickers = <<>>
    /\ ticker_idx = 0
    /\ files = <<>>
    /\ file_idx = 0
    /\ parsed_data_list = <<>>
    /\ warnings = <<>>
    /\ saved = <<>>
    /\ dpc = "none"

\* The two scans taken in turn: an iteration (or the return) of the generic
\* parser, then the same of the MU parser.
NextPair ==
    \/ ~Behind /\ SectionStep
    \/ ~Behind /\ SpeakerStep
    \/ ~Behind /\ ContentStep
    \/ ~Behind /\ Return
    \/ Behind /\ MU_SectionStep
    \/ Behind /\ MU_SpeakerStep
    \/ Behind /\ MU_ContentStep
    \/ Behind /\ MU_Return

SpecPair == InitPair /\ [][NextPair]_vars

\* ---- main(): the batch over tickers and files ----
\* Bound of the listings: the first ticker has at most MaxFiles files.
MaxFiles == 2

DigitChar == <<"1", "2", "3", "4", "5", "6", "7", "8", "9">>

\* The name of the n-th file of a sorted listing.
FileName(n) == <<DigitChar[n], ".", "t", "x", "t">>

\* What a file can be: one of the transcripts, or a file whose open() raises
\* (removed or made unreadable after the listing, or a directory).
FileKinds ==
    { [contents |-> TranscriptA, readable |-> TRUE],
      [contents |-> TranscriptB, readable |-> TRUE],
      [contents |-> TranscriptN, readable |-> TRUE],
      [contents |-> TranscriptA, readable |-> FALSE] }

\* files = [f for f in os.listdir(ticker_dir) if f.endswith('.txt')];
\* files.sort(): the listing of a ticker, in the order of the names.
Listing(kinds) ==
    [n \in 1..Len(kinds) |->
        [filename |-> FileName(n),
         contents |-> kinds[n].contents,
         readable |-> kinds[n].readable]]

FileListings ==
    {Listing(kinds) : kinds \in UNION {[1..n -> FileKinds] : n \in 0..MaxFiles}}

LaterListings ==
    { Listing(<<[contents |-> TranscriptB, readable |-> TRUE]>>),
      Listing(<<[contents |-> TranscriptA, readable |-> FALSE],
                [contents |-> TranscriptA, readable |-> TRUE]>>) }

\* The listings main() can find: one ticker, or two.
TickerListings ==
    {<<[name |-> "AAPL", files |-> fs]>> : fs \in FileListings}
    \cup {<<[name |-> "AAPL", files |-> fs], [name |-> "MSFT", files |-> gs]>> :
            fs \in FileListings, gs \in LaterListings}

\* tickers = [the directories of TRANSCRIPTS_DIR]; tickers.sort(): main()
\* finds one of the listings.
ListTickers ==
    /\ dpc = "start"
    /\ tickers' \in TickerListings
    /\ dpc' = "tickers"
    /\ UNCHANGED mu
    /\ UNCHANGED <<lines, quarter, i, current_section, current_role,
                   prepared_remarks, qa_management, qa_analysts, pc, result,
                   ticker, ticker_idx, files, file_idx, parsed_data_list,
                   warnings, saved>>

\* for ticker in tickers: the listing of the ticker and an empty list.
BeginTicker ==
    /\ dpc = "tickers"
    /\ ticker_idx < Len(tickers)
    /\ ticker_idx' = ticker_idx + 1
    /\ ticker' = tickers[ticker_idx + 1].name
    /\ files' = tickers[ticker_idx + 1].files
    /\ file_idx' = 0
    /\ parsed_data_list' = <<>>
    /\ dpc' = "files"
    /\ UNCHANGED mu
    /\ UNCHANGED <<lines, quarter, i, current_section, current_role,
                   prepared_remarks, qa_management, qa_analysts, pc, result,
                   tickers, warnings, saved>>

\* Variant of CallParse: the three buffers live on from call to call.
CallParse_KeepBuffers ==
    /\ dpc = "files"
    /\ file_idx < Len(files)
    /\ files[file_idx + 1].readable
    /\ file_idx' = file_idx + 1
    /\ lines' = ReadLines(files[file_idx + 1].contents)
    /\ quarter' = extract_quarter(lines')
    /\ UNCHANGED <<prepared_remarks, qa_management, qa_analysts>>
    /\ current_section' = None
    /\ current_role' = None
    /\ i' = 0
    /\ pc' = "loop"
    /\ result' = <<>>
    /\ dpc' = "parsing"
    /\ UNCHANGED mu
    /\ UNCHANGED <<ticker, tickers, ticker_idx, files, parsed_data_list,
                   warnings, saved>>

\* for filename in files: data = parse_transcript(file_path, ticker), up to
\* the loop: the file is read and the locals are set.
CallParse ==
    /\ dpc = "files"
    /\ file_idx < Len(files)
    /\ files[file_idx + 1].readable
    /\ file_idx' = file_idx + 1
    /\ lines' = ReadLines(files[file_idx + 1].contents)
    /\ quarter' = extract_quarter(lines')
    /\ prepared_remarks' = <<>>
    /\ qa_management' = <<>>
    /\ qa_analysts' = <<>>
    /\ current_section' = None
    /\ current_role' = None
    /\ i' = 0
    /\ pc' = "loop"
    /\ result' = <<>>
    /\ dpc' = "parsing"
    /\ UNCHANGED mu
    /\ UNCHANGED <<ticker, tickers, ticker_idx, files, parsed_data_list,
                   warnings, saved>>

\* Variant of Except: no handler, the exception ends main().
Except_Abort ==
    /\ \/ dpc = "files" /\ file_idx < Len(files) /\ ~files[file_idx + 1].readable
       \/ dpc = "parsing" /\ pc = "raised"
    /\ dpc' = "aborted"
    /\ UNCHANGED mu
    /\ UNCHANGED <<lines, quarter, i, current_section, current_role,
                   prepared_remarks, qa_management, qa_analysts, pc, result,
                   ticker, tickers, ticker_idx, files, file_idx,
                   parsed_data_list, warnings, saved>>

\* except Exception as e: print(f"  Warning: Failed to parse {filename}: {e}"),
\* for an open() that raises and for an exception of the loop.
Except ==
    /\ \/ dpc = "files" /\ file_idx < Len(files) /\ ~files[file_idx + 1].readable
       \/ dpc = "parsing" /\ pc = "raised"
    /\ LET n == IF dpc = "files" THEN file_idx + 1 ELSE file_idx
       IN  /\ warnings' = Append(warnings, files[n].filename)
           /\ file_idx' = n
    /\ dpc' = "files"
    /\ UNCHANGED mu
    /\ pc' = "idle"
    /\ UNCHANGED <<lines, quarter, i, current_section, current_role,
                   prepared_remarks, qa_management, qa_analysts, result,
                   ticker, tickers, ticker_idx, files, parsed_data_list, saved>>

\* if data['quarter']: parsed_data_list.append(data)
Collect ==
    /\ dpc = "parsing"
    /\ pc = "done"
    /\ LET data == result[1]
       IN  parsed_data_list' =
               IF data.quarter # <<>> THEN Append(parsed_data_list, data)
               ELSE parsed_data_list
    /\ dpc' = "files"
    /\ UNCHANGED mu
    /\ pc' = "idle"
    /\ UNCHANGED <<lines, quarter, i, current_section, current_role,
                   prepared_remarks, qa_management, qa_analysts, result,
                   ticker, tickers, ticker_idx, files, file_idx, warnings,
                   saved>>

\* if parsed_data_list: the rows are written to {ticker}_transcript_data.csv.
SaveTicker ==
    /\ dpc = "files"
    /\ file_idx = Len(files)
    /\ saved' = IF parsed_data_list # <<>>
                THEN Append(saved, [ticker |-> ticker, rows |-> parsed_data_list])
                ELSE saved
    /\ dpc' = "tickers"
    /\ UNCHANGED mu
    /\ UNCHANGED <<lines, quarter, i, current_section, current_role,
                   prepared_remarks, qa_management, qa_analysts, pc, result,
                   ticker, tickers, ticker_idx, files, file_idx,
                   parsed_data_list, warnings>>

\* main() before the listing of the tickers; no call has been made yet.
InitBatch ==
    /\ tickers = <<>>
    /\ ticker_idx = 0
    /\ ticker = None
    /\ files = <<>>
    /\ file_idx = 0
    /\ parsed_data_list = <<>>
    /\ warnings = <<>>
    /\ saved = <<>>
    /\ dpc = "start"
    /\ mu = MU_Idle
    /\ lines = <<>>
    /\ quarter = <<>>
    /\ prepared_remarks = <<>>
    /\ qa_management = <<>>
    /\ qa_analysts = <<>>
    /\ current_section = None
    /\ current_role = None
    /\ i = 0
    /\ pc = "idle"
    /\ result = <<>>

NextBatch ==
    \/ ListTickers
    \/ BeginTicker
    \/ CallParse
    \/ SectionStep
    \/ SpeakerStep
    \/ ContentStep
    \/ Return
    \/ Collect
    \/ Except
    \/ SaveTicker

\* main() is a sequential program: it takes its next step as long as it
\* has one.
SpecBatch == InitBatch /\ [][NextBatch]_vars /\ WF_vars(NextBatch)

\* ---- properties ----
Buffers == <<prepared_remarks, qa_management, qa_analysts>>

\* lines[k] is neither blank nor a separator of either kind.
IsProse(k) ==
    /\ At(k) # <<>>
    /\ ~SECTION_SEPARATOR_PATTERN(At(k))
    /\ ~SPEAKER_SEPARATOR_PATTERN(At(k))

\* The scan is about to dispatch lines[i].
Dispatching == pc = "loop" /\ i < Len(lines)

\* The section marker at index m has a caption recognised as definitions or
\* disclaimer: the first non-blank line after it holds one of the two words
\* and none of the words of the Presentation and Q&A captions.
TerminatingCaption(m) ==
    LET j == SkipBlank(m + 1)
    IN  /\ j < Len(lines)
        /\ LET low == Lower(At(j))
           IN  /\ ~Contains(low, KwPresentation)
               /\ ~Contains(low, KwQuestions)
               /\ ~Contains(low, KwQA)
               /\ Contains(low, KwDefinitions) \/ Contains(low, KwDisclaimer)

\* C1: a section marker with a definitions/disclaimer caption halts the scan:
\* the step that dispatches it changes neither section nor role nor a buffer
\* and leaves the loop, and from then on no step changes section, role or a
\* buffer or re-enters the loop, whatever the later lines hold; the bodies of
\* the record are the buffers as they were at the caption.
C1_DisclaimerHalts ==
    /\ [][ /\ (Dispatching /\ SECTION_SEPARATOR_PATTERN(At(i)) /\ TerminatingCaption(i))
              => /\ pc' = "break"
                 /\ UNCHANGED <<current_section, current_role, Buffers, i>>
           /\ pc # "loop"
              => /\ pc' # "loop"
                 /\ UNCHANGED <<current_section, current_role, Buffers, i>>
         ]_vars
    /\ [](pc = "done" =>
             /\ result[1].prepared_remarks = Join(prepared_remarks)
             /\ result[1].qa_management = Join(qa_management)
             /\ result[1].qa_analysts = Join(qa_analysts))

\* C1 witness: the parse ended at a disclaimer caption with one line buffered,
\* and a Presentation caption, a header block and a content line come later.
C1_Witness ==
    /\ pc = "done"
    /\ i + 1 < Len(lines)
    /\ SECTION_SEPARATOR_PATTERN(At(i))
    /\ TerminatingCaption(i)
    /\ prepared_remarks = <<TxtRevenue>>
    /\ \E n \in (i + 2)..(Len(lines) - 1) : At(n) = TxtNextQuestion
    /\ \E n \in (i + 2)..(Len(lines) - 1) : At(n) = TxtPresentation

\* C2: while the current role is Operator no step appends to any buffer, in
\* Presentation and in Q&A alike, and no line dispatched under the Operator
\* role is added to a buffer.
C2_OperatorExcluded ==
    [][current_role = ROLE_OPERATOR => UNCHANGED Buffers]_vars

\* C2 witness: in Q&A, under a confirmed Operator header, a content line has
\* been dispatched and every buffer is still empty.
C2_Witness ==
    /\ pc = "loop"
    /\ current_section = SECTION_QA
    /\ current_role = ROLE_OPERATOR
    /\ i >= 1
    /\ At(i - 1) = TxtRevenue
    /\ Buffers = << <<>>, <<>>, <<>> >>

\* C3: while the section is unset the three buffers are empty.
C3_NothingBeforeFirstSection ==
    current_section = None => Buffers = << <<>>, <<>>, <<>> >>

\* C3 witness: a content line was dispatched under a Management role while
\* the section was still unset.
C3_Witness ==
    /\ pc = "loop"
    /\ current_section = None
    /\ current_role = ROLE_MANAGEMENT
    /\ i >= 1
    /\ At(i - 1) = TxtRevenue

\* The speaker marker at index m is a stray one: the second non-blank line
\* after it, if there is one, is no speaker marker.
NoClosingMarker(m) ==
    LET k == SkipBlank(SkipBlank(m + 1) + 1)
    IN  ~(k < Len(lines) /\ SPEAKER_SEPARATOR_PATTERN(At(k)))

TokenCount(text) ==
    Cardinality({p \in 1..Len(text) :
                    ~IsSpace(text[p]) /\ (p = 1 \/ IsSpace(text[p - 1]))})

\* Where entry n of a buffer starts in the joined text (0-based offset).
RECURSIVE JoinOffset(_, _)
JoinOffset(buf, n) ==
    IF n = 1 THEN 0 ELSE JoinOffset(buf, n - 1) + Len(buf[n - 1]) + 1

\* body is the entries of buf in order, one blank between two of them.
IsSpaceJoined(body, buf) ==
    IF buf = <<>> THEN body = <<>>
    ELSE /\ Len(body) = JoinOffset(buf, Len(buf)) + Len(buf[Len(buf)])
         /\ \A n \in 1..Len(buf) :
               SubSeq(body, JoinOffset(buf, n) + 1,
                      JoinOffset(buf, n) + Len(buf[n])) = buf[n]
         /\ \A n \in 2..Len(buf) : body[JoinOffset(buf, n)] = " "

\* C5: in the returned record each body is its buffer joined by single
\* blanks and each word count is the number of whitespace-delimited tokens
\* of that body.
C5_WordCounts ==
    pc = "done" =>
        LET r == result[1]
        IN  /\ IsSpaceJoined(r.prepared_remarks, prepared_remarks)
            /\ IsSpaceJoined(r.qa_management, qa_management)
            /\ IsSpaceJoined(r.qa_analysts, qa_analysts)
            /\ r.word_count_prepared_remarks = TokenCount(r.prepared_remarks)
            /\ r.word_count_qa_management = TokenCount(r.qa_management)
            /\ r.word_count_qa_analysts = TokenCount(r.qa_analysts)

\* C5 witness: a record whose prepared remarks were appended twice, six
\* words in two lines, next to an empty body.
C5_Witness ==
    /\ pc = "done"
    /\ Len(prepared_remarks) = 2
    /\ result[1].word_count_prepared_remarks = 6
    /\ result[1].qa_analysts = <<>>
    /\ result[1].word_count_qa_analysts = 0

\* No body of the record holds the text.
AbsentFromBodies(text) ==
    /\ ~Contains(result[1].prepared_remarks, text)
    /\ ~Contains(result[1].qa_management, text)
    /\ ~Contains(result[1].qa_analysts, text)

\* C6 as stated: the scenario transcript gives prepared_remarks
\* "Revenue grew 10%." with a word count of 4 and no Operator line.
C6_AsStated ==
    (pc = "done" /\ lines = ReadLines(Scenario)) =>
        /\ result[1].prepared_remarks = TxtRevenue
        /\ result[1].word_count_prepared_remarks = 4
        /\ AbsentFromBodies(TxtNextQuestion)

\* C6: the scenario transcript gives prepared_remarks "Revenue grew 10%."
\* with a word count of 3, the number of its whitespace-delimited tokens,
\* and the Operator line in no body.
C6_Scenario ==
    (pc = "done" /\ lines = ReadLines(Scenario)) =>
        /\ result[1].prepared_remarks = TxtRevenue
        /\ result[1].word_count_prepared_remarks = 3
        /\ AbsentFromBodies(TxtNextQuestion)
        /\ result[1].qa_management = <<>>
        /\ result[1].qa_analysts = <<>>

\* C6 witness: the scenario transcript parsed to its end, the Operator line
\* dispatched last.
C6_Witness ==
    /\ pc = "done"
    /\ lines = ReadLines(Scenario)
    /\ i = Len(lines)
    /\ current_role = ROLE_OPERATOR

\* C7: a content line that is not filtered goes to the prepared remarks in
\* Presentation unless the role is Operator, to the management buffer in
\* Q&A under Management, to the analyst buffer in Q&A under Analyst, and to
\* no buffer otherwise; it is appended to one buffer at most.
C7_Routing ==
    [][ ( /\ Dispatching
          /\ IsProse(i)
          /\ ~IsDigit(At(i))
          /\ ~StartsWith(At(i), KwThomson) )
        => IF current_section = SECTION_PRESENTATION /\ current_role # ROLE_OPERATOR
           THEN /\ prepared_remarks' = Append(prepared_remarks, At(i))
                /\ UNCHANGED <<qa_management, qa_analysts>>
           ELSE IF current_section = SECTION_QA /\ current_role = ROLE_MANAGEMENT
           THEN /\ qa_management' = Append(qa_management, At(i))
                /\ UNCHANGED <<prepared_remarks, qa_analysts>>
           ELSE IF current_section = SECTION_QA /\ current_role = ROLE_ANALYST
           THEN /\ qa_analysts' = Append(qa_analysts, At(i))
                /\ UNCHANGED <<prepared_remarks, qa_management>>
           ELSE UNCHANGED Buffers
      ]_vars

\* C7 witness: in Q&A with no speaker yet a content line was dispatched and
\* went to no buffer.
C7_Witness ==
    /\ pc = "loop"
    /\ current_section = SECTION_QA
    /\ current_role = None
    /\ i >= 1
    /\ At(i - 1) = TxtRevenue
    /\ Buffers = << <<>>, <<>>, <<>> >>

RecordFields ==
    {"ticker", "quarter", "prepared_remarks", "qa_management", "qa_analysts",
     "word_count_prepared_remarks", "word_count_qa_management",
     "word_count_qa_analysts"}

\* C8: no input makes the parse raise: no lookahead reads past the end of
\* the lines, and what the parse returns is one record with the eight
\* fields, empty bodies included; before the return there is no record.
C8_NeverRaises ==
    /\ pc \in {"loop", "break", "done"}
    /\ pc = "done" => Len(result) = 1 /\ DOMAIN result[1] = RecordFields
    /\ pc # "done" => result = <<>>

\* C8 witness: a transcript that ends in a speaker marker followed only by
\* a blank line was parsed to a record with three empty bodies.
C8_Witness ==
    /\ pc = "done"
    /\ Len(lines) >= 2
    /\ SPEAKER_SEPARATOR_PATTERN(At(Len(lines) - 2))
    /\ At(Len(lines) - 1) = <<>>
    /\ result[1].prepared_remarks = <<>>
    /\ result[1].qa_management = <<>>
    /\ result[1].qa_analysts = <<>>

NoMarkers ==
    \A n \in 0..(Len(lines) - 1) :
        ~SECTION_SEPARATOR_PATTERN(At(n)) /\ ~SPEAKER_SEPARATOR_PATTERN(At(n))

\* C9: a transcript without any section or speaker marker gives three empty
\* bodies and three word counts of 0, and does not raise.
C9_NoMarkers ==
    NoMarkers =>
        /\ pc # "raised"
        /\ pc = "done" =>
              /\ result[1].prepared_remarks = <<>>
              /\ result[1].qa_management = <<>>
              /\ result[1].qa_analysts = <<>>
              /\ result[1].word_count_prepared_remarks = 0
              /\ result[1].word_count_qa_management = 0
              /\ result[1].word_count_qa_analysts = 0

\* C9 witness: a record for a transcript without markers that holds content
\* lines, a caption word among them.
C9_Witness ==
    /\ pc = "done"
    /\ NoMarkers
    /\ \E n \in 0..(Len(lines) - 1) : At(n) = TxtRevenue
    /\ \E n \in 0..(Len(lines) - 1) : At(n) = TxtPresentation

\* The speaker marker at index m opens a confirmed header block.
ConfirmedBlock(m) ==
    LET j == SkipBlank(m + 1)
    IN  /\ j < Len(lines)
        /\ LET k == SkipBlank(j + 1)
           IN  k < Len(lines) /\ SPEAKER_SEPARATOR_PATTERN(At(k))

TitleKeywords == {management_titles[t] : t \in 1..Len(management_titles)}

\* The decision list: Operator, else a title keyword, else Analyst.
DecisionList(header) ==
    IF Contains(header, TxtOperator) THEN ROLE_OPERATOR
    ELSE IF \E title \in TitleKeywords : Contains(header, title) THEN ROLE_MANAGEMENT
    ELSE ROLE_ANALYST

\* C10: the role a confirmed header block sets is the first match of the
\* decision list for its header line: "Operator" wins over a title, a title
\* wins over "Analyst", and the role set is never Unset.
C10_RoleDecisionList ==
    [][ (Dispatching /\ SPEAKER_SEPARATOR_PATTERN(At(i)) /\ ConfirmedBlock(i))
        => LET header == At(SkipBlank(i + 1))
           IN  /\ current_role' = DecisionList(header)
               /\ current_role' \in {ROLE_OPERATOR, ROLE_MANAGEMENT, ROLE_ANALYST}
               /\ header = TxtOperatorCEO => current_role' = ROLE_OPERATOR
               /\ header = TxtAnalystRelations => current_role' = ROLE_MANAGEMENT
               /\ header = TxtLowerOperator => current_role' = ROLE_ANALYST
      ]_vars

\* C10 witness: a header with a title keyword and "Analyst" was confirmed
\* and the role is Management.
C10_Witness ==
    /\ current_role = ROLE_MANAGEMENT
    /\ \E n \in 1..(Len(lines) - 2) :
          /\ At(n) = TxtAnalystRelations
          /\ i > n + 1

\* ---- the quarter ----
TokQ2 == <<"Q", "2", " ", "2", "0", "2", "2">>
TokQ3 == <<"Q", "3", " ", " ", "2", "0", "2", "1">>
TokQ1 == <<"Q", "1", " ", "2", "0", "2", "0">>

\* A text of the form Q, a digit 1-4, one or more whitespace, four digits.
IsQuarterToken(tok) ==
    /\ Len(tok) >= 7
    /\ tok[1] = "Q"
    /\ tok[2] \in {"1", "2", "3", "4"}
    /\ \A p \in 3..(Len(tok) - 4) : tok[p] \in Whitespace
    /\ \A p \in (Len(tok) - 3)..Len(tok) : tok[p] \in Digits

\* A quarter token starts at position a of the text (1-based).
TokenStartsAt(text, a) ==
    \E b \in a..Len(text) : IsQuarterToken(SubSeq(text, a, b))

HasQuarterToken(text) == \E a \in 1..Len(text) : TokenStartsAt(text, a)

\* The indices of the lines with a quarter token among the first n lines.
TokenLines(n) ==
    {m \in 0..(Len(lines) - 1) : m < n /\ HasQuarterToken(At(m))}

C13_ArtifactsDropped ==
    [][ ( /\ Dispatching
          /\ IsProse(i)
          /\ \/ At(i) \in {TxtPageNumber, TxtWatermark}
             \/ \A p \in 1..Len(At(i)) : At(i)[p] \in Digits
             \/ (Len(At(i)) >= Len(KwThomson)
                 /\ \A p \in 1..Len(KwThomson) : At(i)[p] = KwThomson[p]) )
        => /\ UNCHANGED <<current_section, current_role, Buffers>>
           /\ i' = i + 1
      ]_vars

\* C13 witness: in Q&A under a Management speaker a watermark line and a
\* page number were dispatched between two content lines, and the
\* management buffer holds the two content lines only.
C13_Witness ==
    /\ pc = "done"
    /\ current_section = SECTION_QA
    /\ current_role = ROLE_MANAGEMENT
    /\ qa_management = <<TxtRevenue, TxtNextQuestion>>
    /\ \E n \in 0..(Len(lines) - 1) : At(n) = TxtWatermark
    /\ \E n \in 0..(Len(lines) - 1) : At(n) = TxtPageNumber

\* ---- line kinds ----
\* The number of characters c the text begins with.
RECURSIVE LeadingRun(_, _)
LeadingRun(text, c) ==
    IF text # <<>> /\ Head(text) = c THEN 1 + LeadingRun(Tail(text), c) ELSE 0

\* The kind of a trimmed line.
KindOf(line) ==
    IF line = <<>> THEN "Blank"
    ELSE IF LeadingRun(line, "=") >= 30 THEN "SectionMarker"
    ELSE IF LeadingRun(line, "-") >= 30 THEN "SpeakerMarker"
    ELSE "Content"

\* C15: a trimmed line is a section marker iff it begins with 30 or more
\* '=', a speaker marker iff it begins with 30 or more '-', whatever
\* follows the run; shorter runs and runs behind other text are content,
\* the empty line is blank, and no line is of two kinds.  The scan treats
\* the lines by these kinds: only a content line is ever appended, and
\* where a line would be appended (Presentation, no Operator, no artifact)
\* every content line is.
C15_LineKinds ==
    /\ [](\A n \in 0..(Len(lines) - 1) :
            /\ SECTION_SEPARATOR_PATTERN(At(n)) <=> KindOf(At(n)) = "SectionMarker"
            /\ SPEAKER_SEPARATOR_PATTERN(At(n)) <=> KindOf(At(n)) = "SpeakerMarker"
            /\ ~(LeadingRun(At(n), "=") >= 30 /\ LeadingRun(At(n), "-") >= 30)
            /\ At(n) = Strip(At(n)))
    /\ [][ Dispatching =>
             /\ KindOf(At(i)) # "Content" => UNCHANGED Buffers
             /\ ( /\ KindOf(At(i)) = "Content"
                  /\ current_section = SECTION_PRESENTATION
                  /\ current_role # ROLE_OPERATOR
                  /\ ~IsDigit(At(i))
                  /\ ~StartsWith(At(i), KwThomson) )
                => prepared_remarks' = Append(prepared_remarks, At(i))
             /\ KindOf(At(i)) = "SectionMarker" => UNCHANGED current_role
             /\ KindOf(At(i)) = "SpeakerMarker" => UNCHANGED current_section
         ]_vars

\* C15 witness: a run of 29 dashes, a run of 29 '=' and two runs behind
\* other text were appended as content of the Presentation.
C15_Witness ==
    /\ pc = "done"
    /\ prepared_remarks = <<TxtShortDashes, TxtRevenue, TxtShortEquals,
                            TxtTextThenDashes, TxtTextThenEquals>>

\* ---- section captions ----
\* The caption of the section marker at index m: the first non-blank line
\* behind it, if there is one.
HasCaption(m) == SkipBlank(m + 1) < Len(lines)
CaptionLow(m) == Lower(At(SkipBlank(m + 1)))

NamesPresentation(low) == Contains(low, KwPresentation)
NamesQA(low) == Contains(low, KwQuestions) \/ Contains(low, KwQA)
NamesEnd(low) == Contains(low, KwDefinitions) \/ Contains(low, KwDisclaimer)

\* C17: when the caption of a dispatched section marker holds
\* "presentation", or "questions and answers" or "q&a", in any case, the
\* step sets the section to Presentation resp. Q&A (Presentation when it
\* holds the words of both), moves the scan to the line behind the caption,
\* and changes neither the role nor a buffer: the caption is skipped,
\* neither appended nor dispatched.
C17_CaptionConsumed ==
    [][ ( /\ Dispatching
          /\ SECTION_SEPARATOR_PATTERN(At(i))
          /\ HasCaption(i)
          /\ NamesPresentation(CaptionLow(i)) \/ NamesQA(CaptionLow(i)) )
        => /\ current_section' = IF NamesPresentation(CaptionLow(i))
                                 THEN SECTION_PRESENTATION ELSE SECTION_QA
           /\ i' = SkipBlank(i + 1) + 1
           /\ pc' = "loop"
           /\ UNCHANGED <<current_role, Buffers>> ]_vars

\* C17 witness: the caption was itself a line of 30 '=' followed by
\* " Presentation"; it opened the Presentation without being dispatched,
\* and the line behind it was appended.
C17_Witness ==
    /\ pc = "done"
    /\ \E n \in 0..(Len(lines) - 1) : At(n) = TxtMarkerCaption
    /\ current_section = SECTION_PRESENTATION
    /\ prepared_remarks = <<TxtRevenue>>

\* C18: when the caption of a dispatched section marker holds none of the
\* five caption words, or no non-blank line follows the marker, the step
\* changes neither the section nor the role nor a buffer and moves the scan
\* by one line only, so the next line dispatched is the one right behind
\* the marker.
C18_UnrecognizedCaption ==
    [][ ( /\ Dispatching
          /\ SECTION_SEPARATOR_PATTERN(At(i))
          /\ \/ ~HasCaption(i)
             \/ ( /\ ~NamesPresentation(CaptionLow(i))
                  /\ ~NamesQA(CaptionLow(i))
                  /\ ~NamesEnd(CaptionLow(i)) ) )
        => /\ i' = i + 1
           /\ pc' = "loop"
           /\ UNCHANGED <<current_section, current_role, Buffers>> ]_vars

\* C18 witness: inside the Presentation a section marker was followed by a
\* prose line; the section stayed and the prose line was appended.
C18_Witness ==
    /\ pc = "done"
    /\ lines = <<SectionMarker, TxtPresentation, SectionMarker, TxtRevenue>>
    /\ current_section = SECTION_PRESENTATION
    /\ prepared_remarks = <<TxtRevenue>>

\* ---- speaker header blocks ----
\* C19: when the speaker marker being dispatched is followed, blank lines
\* skipped, by a candidate line and then, blank lines skipped, by another
\* speaker marker, the step sets the role to the role of the candidate line
\* and moves the scan to the line behind the closing marker; it changes
\* neither the section nor a buffer, so neither the candidate nor the
\* closing marker is appended or dispatched.
C19_HeaderConsumed ==
    [][ ( /\ Dispatching
          /\ SPEAKER_SEPARATOR_PATTERN(At(i))
          /\ ConfirmedBlock(i) )
        => /\ current_role' = DecisionList(At(SkipBlank(i + 1)))
           /\ i' = SkipBlank(SkipBlank(i + 1) + 1) + 1
           /\ pc' = "loop"
           /\ UNCHANGED <<current_section, Buffers>> ]_vars

\* C19 witness: in marker / Jane Doe / marker / John Roe / marker the
\* second marker closed the first block and did not open a second one: the
\* role stayed Management and the lines behind went to qa_management.
C19_Witness ==
    /\ pc = "done"
    /\ lines = <<SectionMarker, TxtQuestions, SpeakerMarker, TxtJaneDoe,
                 SpeakerMarker, TxtJohnRoe, SpeakerMarker, TxtNextQuestion>>
    /\ current_role = ROLE_MANAGEMENT
    /\ qa_management = <<TxtJohnRoe, TxtNextQuestion>>
    /\ qa_analysts = <<>>

\* C20: when the speaker marker being dispatched has no candidate line
\* behind it, or the first non-blank line behind the candidate is no
\* speaker marker or does not exist, the step changes neither the role nor
\* the section nor a buffer and moves the scan by one line only, so the
\* next line dispatched is the one right behind the marker.
C20_UnconfirmedBlock ==
    [][ ( /\ Dispatching
          /\ SPEAKER_SEPARATOR_PATTERN(At(i))
          /\ ~ConfirmedBlock(i) )
        => /\ i' = i + 1
           /\ pc' = "loop"
           /\ UNCHANGED <<current_section, current_role, Buffers>> ]_vars

\* C20 witness: a marker with "Jane Doe, Chief Financial Officer" behind it
\* and no closing marker left the role at Analyst, and the candidate line
\* was appended as an analyst's line.
C20_Witness ==
    /\ pc = "done"
    /\ current_role = ROLE_ANALYST
    /\ qa_analysts = <<TxtNextQuestion, TxtJaneDoe, TxtRevenue>>
    /\ qa_management = <<>>

\* ---- the batch ----
\* The file yields a row: it can be read and its transcript has a quarter.
\* The quarter of each of the transcripts of the batch.
QuarterOf ==
    [c \in {k.contents : k \in FileKinds} |-> extract_quarter(ReadLines(c))]

YieldsRow(file) == file.readable /\ QuarterOf[file.contents] # <<>>

CannotBeRead(file) == ~file.readable

\* The files of a listing that yield a row, in the order of the listing.
Kept(fs) == SelectSeq(fs, YieldsRow)

\* The listing of the ticker of the given name.
FilesOf(name) ==
    tickers[CHOOSE t \in 1..Len(tickers) : tickers[t].name = name].files

\* The records main() holds, each with the contents of the file it came
\* from: the rows written, the rows of the ticker at hand, and the record
\* just returned.
Seen ==
    UNION { { [contents |-> Kept(FilesOf(saved[s].ticker))[a].contents,
               data |-> saved[s].rows[a]] : a \in 1..Len(saved[s].rows) }
            : s \in 1..Len(saved) }
    \cup { [contents |-> Kept(files)[a].contents, data |-> parsed_data_list[a]]
           : a \in 1..Len(parsed_data_list) }
    \cup IF dpc = "parsing" /\ pc = "done"
         THEN { [contents |-> files[file_idx].contents, data |-> result[1]] }
         ELSE {}

\* The record without the ticker it was made for.
Body(data) == [data EXCEPT !.ticker = None]

\* C14: a parse depends on nothing but its file and its ticker.  Every call
\* of parse_transcript in a batch starts from the same locals (empty
\* buffers, no section, no role, index 0, the lines and the quarter of its
\* file), whatever was parsed before; and any two records of the batch made
\* from files of equal contents are equal field by field, the ticker aside,
\* and equal altogether when made for the same ticker.
C14_Stateless ==
    /\ [](\A x, y \in Seen :
            x.contents = y.contents
            => /\ Body(x.data) = Body(y.data)
               /\ x.data.ticker = y.data.ticker => x.data = y.data)
    /\ [][ (dpc = "files" /\ dpc' = "parsing")
           => /\ lines' = ReadLines(files[file_idx + 1].contents)
              /\ quarter' = extract_quarter(lines')
              /\ prepared_remarks' = <<>>
              /\ qa_management' = <<>>
              /\ qa_analysts' = <<>>
              /\ current_section' = None
              /\ current_role' = None
              /\ i' = 0
              /\ UNCHANGED ticker ]_vars

\* C14 witness: the first ticker held the Q&A call and the prepared-remarks
\* call, the second ticker the Q&A call again; the Q&A call gave the same
\* record, with the analyst's line and nothing of the prepared remarks,
\* before and after the other call was parsed.
C14_Witness ==
    /\ Len(saved) = 2
    /\ Len(FilesOf(saved[1].ticker)) = 2
    /\ Len(FilesOf(saved[2].ticker)) = 1
    /\ FilesOf(saved[1].ticker)[1].contents = TranscriptB
    /\ FilesOf(saved[1].ticker)[2].contents = TranscriptA
    /\ FilesOf(saved[2].ticker)[1].contents = TranscriptB
    /\ Len(saved[1].rows) = 2
    /\ Len(saved[2].rows) = 1
    /\ Body(saved[1].rows[1]) = Body(saved[2].rows[1])
    /\ saved[1].rows[1] # saved[2].rows[1]
    /\ saved[2].rows[1].qa_analysts = TxtNextQuestion
    /\ saved[2].rows[1].prepared_remarks = <<>>
    /\ saved[1].rows[2].prepared_remarks = TxtRevenue

\* parse_transcript raises for the file main() is about to hand to it, or
\* has raised inside its loop.
Raising ==
    \/ dpc = "files" /\ file_idx < Len(files) /\ CannotBeRead(files[file_idx + 1])
    \/ dpc = "parsing" /\ pc = "raised"

\* The file whose parse raises.
RaisingFile == IF dpc = "files" THEN files[file_idx + 1] ELSE files[file_idx]

NamesOf(fs) == [n \in 1..Len(fs) |-> fs[n].filename]

\* The warnings of a whole batch: the files that cannot be read, ticker by
\* ticker.
AllWarnings ==
    Flatten([t \in 1..Len(tickers) |->
                NamesOf(SelectSeq(tickers[t].files, CannotBeRead))])

HasRows(tk) == Kept(tk.files) # <<>>

\* main() is through with every ticker, and every file is accounted for: a
\* warning for every file that cannot be read, and for every ticker with a
\* row to write a CSV with one row, of the right quarter, for every file
\* that yields one.
BatchComplete ==
    /\ dpc = "tickers"
    /\ ticker_idx = Len(tickers)
    /\ warnings = AllWarnings
    /\ LET written == SelectSeq(tickers, HasRows)
       IN  /\ Len(saved) = Len(written)
           /\ \A s \in 1..Len(saved) :
                /\ saved[s].ticker = written[s].name
                /\ Len(saved[s].rows) = Len(Kept(written[s].files))
                /\ \A a \in 1..Len(saved[s].rows) :
                     /\ saved[s].rows[a].ticker = written[s].name
                     /\ saved[s].rows[a].quarter =
                          QuarterOf[Kept(written[s].files)[a].contents]

\* C16: when the parse of a file raises, the step of main() that handles it
\* reports a warning with the name of that file, adds no record and writes
\* no CSV, and goes on with the next file of the listing; and from there
\* main() reaches its end with every other file of the ticker and of the
\* later tickers processed.
C16_BatchContinues ==
    /\ [][ Raising
           => /\ warnings' = Append(warnings, RaisingFile.filename)
              /\ dpc' = "files"
              /\ file_idx' = IF dpc = "files" THEN file_idx + 1 ELSE file_idx
              /\ UNCHANGED <<parsed_data_list, saved, ticker, tickers,
                             ticker_idx, files>> ]_vars
    /\ Raising ~> BatchComplete

\* C16 witness: the first file of each of two tickers could not be read;
\* both were reported, and the file behind each of them gave its ticker a
\* CSV with one row.
C16_Witness ==
    /\ BatchComplete
    /\ Len(tickers) = 2
    /\ Len(tickers[1].files) = 2
    /\ CannotBeRead(tickers[1].files[1])
    /\ CannotBeRead(tickers[2].files[1])
    /\ warnings = <<FileName(1), FileName(1)>>
    /\ Len(saved) = 2
    /\ Len(saved[1].rows) = 1
    /\ Len(saved[2].rows) = 1

\* ---- frames of section and role ----
\* C21: the section changes only in a step that dispatches a section
\* marker, and the role only in a step that dispatches a speaker marker
\* (a line that is no section marker): a section step leaves the role as it
\* was, a speaker step leaves the section as it was, and a step on a
\* content line or a blank line, or the return, changes neither.
C21_SectionRoleFrames ==
    [][ /\ current_section' # current_section
           => Dispatching /\ SECTION_SEPARATOR_PATTERN(At(i))
        /\ current_role' # current_role
           => /\ Dispatching
              /\ ~SECTION_SEPARATOR_PATTERN(At(i))
              /\ SPEAKER_SEPARATOR_PATTERN(At(i))
        /\ (Dispatching /\ SECTION_SEPARATOR_PATTERN(At(i)))
           => UNCHANGED current_role
        /\ (Dispatching /\ SPEAKER_SEPARATOR_PATTERN(At(i)))
           => UNCHANGED current_section
        /\ (Dispatching /\ (At(i) = <<>> \/ IsProse(i)))
           => UNCHANGED <<current_section, current_role>> ]_vars

\* C21 witness: a header block of a manager came before the Presentation
\* caption; behind the caption the role is still Management and the line
\* that follows was appended.
C21_Witness ==
    /\ pc = "done"
    /\ lines = <<SpeakerMarker, TxtJaneDoe, SpeakerMarker,
                 SectionMarker, TxtPresentation, TxtRevenue>>
    /\ current_role = ROLE_MANAGEMENT
    /\ current_section = SECTION_PRESENTATION
    /\ prepared_remarks = <<TxtRevenue>>

\* ---- termination ----
\* C22: the scan terminates.  Every iteration of the loop that stays in the
\* loop moves the index i strictly forward, a lookahead jump included, and
\* never past the end of the lines; the only iteration that does not is the
\* one that leaves the loop by break, at a definitions/disclaimer caption.
\* So the loop is left, and it is left with i at the end of the input or at
\* the section marker of such a caption.
C22_Terminates ==
    /\ [](0 <= i /\ i <= Len(lines))
    /\ [][ Dispatching
           => \/ pc' = "loop" /\ i < i' /\ i' <= Len(lines)
              \/ /\ pc' = "break" /\ i' = i
                 /\ SECTION_SEPARATOR_PATTERN(At(i)) /\ TerminatingCaption(i) ]_vars
    /\ [](pc = "done"
            => \/ i = Len(lines)
               \/ /\ i < Len(lines)
                  /\ SECTION_SEPARATOR_PATTERN(At(i))
                  /\ TerminatingCaption(i))
    /\ <>(pc # "loop" \/ ~(i < Len(lines)))

\* C22 witness: the scan of a transcript of eleven lines, with lookahead
\* jumps over a caption and over two header blocks, has ended at the end of
\* the input.
C22_Witness ==
    /\ pc = "done"
    /\ lines = ReadLines(Scenario)
    /\ i = Len(lines)
    /\ Len(lines) = 11

\* ---- the role set before the first section ----
\* C23: a header block is resolved while no section is set yet, the role it
\* sets is still in force behind the first caption, and the Operator
\* discards: a confirmed block dispatched without a section sets the role
\* of its candidate line; while the role is Operator no step appends to a
\* buffer, in the Presentation as elsewhere; and the role stops being
\* Operator only in the step of a confirmed header block of another role.
C23_RoleCarriesIn ==
    [][ /\ ( /\ Dispatching
             /\ current_section = None
             /\ SPEAKER_SEPARATOR_PATTERN(At(i))
             /\ ConfirmedBlock(i) )
           => current_role' = DecisionList(At(SkipBlank(i + 1)))
        /\ current_role = ROLE_OPERATOR => UNCHANGED Buffers
        /\ (current_role = ROLE_OPERATOR /\ current_role' # ROLE_OPERATOR)
           => /\ Dispatching
              /\ SPEAKER_SEPARATOR_PATTERN(At(i))
              /\ ConfirmedBlock(i)
              /\ DecisionList(At(SkipBlank(i + 1))) # ROLE_OPERATOR ]_vars

\* C23 witness: the Operator's block stood before the Presentation caption;
\* the two lines of the Presentation that came under it are gone, and only
\* the line behind the manager's block was appended.
C23_Witness ==
    /\ pc = "done"
    /\ lines \in {ReadLines(raw) : raw \in CarryInputs}
    /\ current_section = SECTION_PRESENTATION
    /\ prepared_remarks = <<TxtRevenue>>
    /\ Len(lines) = 12

\* ---- order of the caption tests ----
\* The number of kinds of caption whose words the lower-cased caption holds.
KindsNamed(low) ==
    (IF NamesPresentation(low) THEN 1 ELSE 0)
    + (IF NamesQA(low) THEN 1 ELSE 0)
    + (IF NamesEnd(low) THEN 1 ELSE 0)

\* C24: a caption with the words of more than one kind of caption is taken
\* by the first test that matches, presentation before Q&A before
\* definitions/disclaimer: with "presentation" in it the section becomes
\* Presentation, whatever else it holds, without it and with a Q&A word the
\* section becomes Q&A, and in both cases the scan goes on.
C24_CaptionOrder ==
    [][ ( /\ Dispatching
          /\ SECTION_SEPARATOR_PATTERN(At(i))
          /\ HasCaption(i)
          /\ KindsNamed(CaptionLow(i)) >= 2 )
        => /\ pc' = "loop"
           /\ NamesPresentation(CaptionLow(i))
              => current_section' = SECTION_PRESENTATION
           /\ ~NamesPresentation(CaptionLow(i))
              => current_section' = SECTION_QA ]_vars

\* C24 witness: behind the caption "Presentation Disclaimer" the scan went
\* on in the Presentation and appended the line that follows.
C24_Witness ==
    /\ pc = "done"
    /\ lines = <<SectionMarker, TxtPresentationDisclaimer, TxtRevenue>>
    /\ current_section = SECTION_PRESENTATION
    /\ prepared_remarks = <<TxtRevenue>>
    /\ i = Len(lines)

\* ---- header blocks in a row ----
\* The lines m..m+4 are speaker marker / prose / speaker marker / prose /
\* speaker marker.
MarkerChain(m) ==
    /\ 0 <= m /\ m + 4 < Len(lines)
    /\ SPEAKER_SEPARATOR_PATTERN(At(m)) /\ ~SECTION_SEPARATOR_PATTERN(At(m))
    /\ IsProse(m + 1)
    /\ SPEAKER_SEPARATOR_PATTERN(At(m + 2))
    /\ IsProse(m + 3)
    /\ SPEAKER_SEPARATOR_PATTERN(At(m + 4)) /\ ~SECTION_SEPARATOR_PATTERN(At(m + 4))

\* The step appends lines[i] to the buffer its section and role name, or to
\* none.
AppendsByRole ==
    LET b == IF IsDigit(At(i)) \/ StartsWith(At(i), KwThomson) THEN "none"
             ELSE IF current_section = SECTION_PRESENTATION
                     /\ current_role # ROLE_OPERATOR THEN "prepared_remarks"
             ELSE IF current_section = SECTION_QA /\ current_role = ROLE_MANAGEMENT
                  THEN "qa_management"
             ELSE IF current_section = SECTION_QA /\ current_role = ROLE_ANALYST
                  THEN "qa_analysts"
             ELSE "none"
    IN  /\ prepared_remarks' = IF b = "prepared_remarks"
                               THEN Append(prepared_remarks, At(i))
                               ELSE prepared_remarks
        /\ qa_management' = IF b = "qa_management"
                            THEN Append(qa_management, At(i)) ELSE qa_management
        /\ qa_analysts' = IF b = "qa_analysts"
                          THEN Append(qa_analysts, At(i)) ELSE qa_analysts

\* C25: in marker / A / marker / B / marker, dispatched from its first
\* marker, the markers are not shared between blocks.  The step on the first
\* marker confirms A, sets the role of A and moves the scan to B; the step
\* on B, under the role of A, is a content step: it leaves the role alone
\* and appends B as that role and the section say; and the step on the third
\* marker does its own lookahead, confirming what follows it or moving on by
\* one line.
C25_MarkersNotShared ==
    [][ /\ (Dispatching /\ MarkerChain(i))
           => /\ current_role' = DecisionList(At(i + 1))
              /\ i' = i + 3
              /\ pc' = "loop"
              /\ UNCHANGED <<current_section, Buffers>>
        /\ ( /\ Dispatching /\ MarkerChain(i - 3)
             /\ current_role = DecisionList(At(i - 2)) )
           => /\ UNCHANGED <<current_role, current_section>>
              /\ i' = i + 1
              /\ AppendsByRole
        /\ (Dispatching /\ MarkerChain(i - 4))
           => /\ UNCHANGED <<current_section, Buffers>>
              /\ IF ConfirmedBlock(i)
                 THEN /\ current_role' = DecisionList(At(SkipBlank(i + 1)))
                      /\ i' = SkipBlank(SkipBlank(i + 1) + 1) + 1
                 ELSE /\ UNCHANGED current_role
                      /\ i' = i + 1 ]_vars

\* C25 witness: in the Q&A, marker / John Roe / marker / Jane Doe / marker:
\* the analyst's block was confirmed, the manager's header line was appended
\* as an analyst's line, and so were the two lines behind the third marker.
C25_Witness ==
    /\ pc = "done"
    /\ current_role = ROLE_ANALYST
    /\ qa_analysts = <<TxtJaneDoe, TxtRevenue, TxtNextQuestion>>
    /\ qa_management = <<>>

\* ---- separator lines as header lines ----
\* The candidate of the speaker marker at index m is itself a separator
\* line.
MarkerCandidate(m) ==
    LET j == SkipBlank(m + 1)
    IN  /\ j < Len(lines)
        /\ SECTION_SEPARATOR_PATTERN(At(j)) \/ SPEAKER_SEPARATOR_PATTERN(At(j))

\* C26 as stated: whenever the candidate of a confirmed block is a speaker
\* marker, the role becomes Analyst.
C26_AsStated ==
    [][ ( /\ Dispatching
          /\ SPEAKER_SEPARATOR_PATTERN(At(i)) /\ ~SECTION_SEPARATOR_PATTERN(At(i))
          /\ ConfirmedBlock(i)
          /\ SPEAKER_SEPARATOR_PATTERN(At(SkipBlank(i + 1))) )
        => current_role' = ROLE_ANALYST ]_vars

\* C26: the header candidate is the first non-blank line behind a speaker
\* marker whatever its kind.  When it is a separator line and a speaker
\* marker follows it, blank lines skipped, the block is confirmed with the
\* separator line as its header: the role becomes the role of that line,
\* which is Analyst when the line is a bare run of its marker character,
\* the scan resumes behind the closing marker, and neither the section nor
\* a buffer changes, so that a section marker taken as the header starts no
\* section lookahead.
C26_MarkerAsHeader ==
    [][ ( /\ Dispatching
          /\ SPEAKER_SEPARATOR_PATTERN(At(i)) /\ ~SECTION_SEPARATOR_PATTERN(At(i))
          /\ ConfirmedBlock(i)
          /\ MarkerCandidate(i) )
        => LET header == At(SkipBlank(i + 1))
           IN  /\ current_role' = DecisionList(header)
               /\ (\A n \in 1..Len(header) : header[n] = header[1])
                  => current_role' = ROLE_ANALYST
               /\ i' = SkipBlank(SkipBlank(i + 1) + 1) + 1
               /\ pc' = "loop"
               /\ UNCHANGED <<current_section, Buffers>> ]_vars

\* C26 witness: in the Presentation a speaker marker was followed by a
\* section marker and a dash run ending in " q&a"; the section marker was
\* taken as the header, the section is still Presentation, the role is
\* Analyst and the line behind was appended to the prepared remarks.
C26_Witness ==
    /\ pc = "done"
    /\ lines = <<SectionMarker, TxtPresentation, SpeakerMarker, SectionMarker,
                 TxtDashCaption, TxtRevenue>>
    /\ current_section = SECTION_PRESENTATION
    /\ current_role = ROLE_ANALYST
    /\ prepared_remarks = <<TxtRevenue>>

\* ---- buffers as subsequences of the input ----

\* buf is a subsequence of ls: its entries occur in ls in the same order.
RECURSIVE IsSubsequence(_, _)
IsSubsequence(buf, ls) ==
    IF buf = <<>> THEN TRUE
    ELSE IF ls = <<>> THEN FALSE
    ELSE IF Head(buf) = Head(ls) THEN IsSubsequence(Tail(buf), Tail(ls))
    ELSE IsSubsequence(buf, Tail(ls))

\* The prose lines among the first n input lines, in their order.
ProseBefore(n) ==
    SelectSeq(SubSeq(lines, 1, n),
              LAMBDA l : /\ l # <<>>
                         /\ ~SECTION_SEPARATOR_PATTERN(l)
                         /\ ~SPEAKER_SEPARATOR_PATTERN(l))

\* The buffers that a step changes.
Grown ==
    {n \in 1..3 : Buffers'[n] # Buffers[n]}

\* C27: the three buffers are append-only and order-preserving.  At every
\* step each buffer is a subsequence of the prose lines already passed, and
\* the three together hold no more entries than there are such lines.  A step
\* changes at most one buffer, and only by appending the dispatched line
\* lines[i], which is then neither blank nor a marker, and moves on by one, so
\* an index gives at most one entry to at most one buffer.  A step that
\* passes more than one line (a section marker with its recognised caption, a
\* confirmed header block with its two markers) appends nothing, so none of
\* the lines it passes is ever an entry.
C27_BuffersSubsequence ==
    /\ [](\A n \in 1..3 : IsSubsequence(Buffers[n], ProseBefore(i)))
    /\ [](Len(prepared_remarks) + Len(qa_management) + Len(qa_analysts)
              <= Len(ProseBefore(i)))
    /\ [][ /\ i' >= i
           /\ Cardinality(Grown) <= 1
           /\ \A n \in Grown :
                 /\ Dispatching
                 /\ IsProse(i)
                 /\ Buffers'[n] = Append(Buffers[n], At(i))
                 /\ i' = i + 1
           /\ (Dispatching /\ i' > i + 1) => Grown = {} ]_vars

\* A finished scan of the year-note transcript: three lines of one section
\* stand in the prepared-remarks buffer in their input order, while the
\* caption, the header and the page number are in no buffer.
C27_Witness ==
    /\ pc = "done"
    /\ Len(prepared_remarks) = 3
    /\ \E a, b, c \in 0..(Len(lines) - 1) :
          /\ a < b /\ b < c
          /\ prepared_remarks = <<At(a), At(b), At(c)>>
    /\ \E m \in 0..(Len(lines) - 1) :
          SPEAKER_SEPARATOR_PATTERN(At(m)) /\ ConfirmedBlock(m)
    /\ Len(ProseBefore(Len(lines))) > 3
    /\ qa_management = <<>>
    /\ qa_analysts = <<>>

\* ---- section and role over time ----

\* lines[k] passes the artifact filter of the content branch.
NotArtifact(k) ==
    /\ ~IsDigit(At(k))
    /\ ~StartsWith(At(k), KwThomson)

\* C28: section and role never return to Unset once set, and the section
\* does not only move forward: when the scan is in Q&A and dispatches a
\* section marker whose caption holds "presentation", the section becomes
\* Presentation again, and from then on, as in any Presentation state, a
\* dispatched prose line that is no artifact, spoken by anyone but the
\* Operator, is appended to the prepared-remarks buffer.
C28_SectionReturns ==
    [][ /\ current_section # None => current_section' # None
        /\ current_role # None => current_role' # None
        /\ ( /\ Dispatching
             /\ current_section = SECTION_QA
             /\ SECTION_SEPARATOR_PATTERN(At(i))
             /\ HasCaption(i)
             /\ NamesPresentation(CaptionLow(i)) )
           => /\ current_section' = SECTION_PRESENTATION
              /\ i' = SkipBlank(i + 1) + 1
              /\ pc' = "loop"
        /\ ( /\ Dispatching
             /\ current_section = SECTION_PRESENTATION
             /\ IsProse(i)
             /\ NotArtifact(i)
             /\ current_role # ROLE_OPERATOR )
           => /\ prepared_remarks' = Append(prepared_remarks, At(i))
              /\ UNCHANGED <<qa_management, qa_analysts>> ]_vars

\* The finished scan of the transcript that goes Presentation, Q&A,
\* Presentation: the analyst's question is in the analyst buffer, and the
\* line behind the second Presentation caption stands in the prepared
\* remarks behind the line of the first Presentation.
C28_Witness ==
    /\ pc = "done"
    /\ current_section = SECTION_PRESENTATION
    /\ current_role = ROLE_ANALYST
    /\ qa_analysts = <<TxtNextQuestion>>
    /\ prepared_remarks = <<TxtRevenue, TxtYearNote>>
    /\ \E m, n \in 0..(Len(lines) - 1) :
          /\ m < n
          /\ SECTION_SEPARATOR_PATTERN(At(m)) /\ HasCaption(m)
          /\ NamesQA(CaptionLow(m)) /\ ~NamesPresentation(CaptionLow(m))
          /\ SECTION_SEPARATOR_PATTERN(At(n)) /\ HasCaption(n)
          /\ NamesPresentation(CaptionLow(n))

\* ---- the quarter and the segmentation ----

\* The lowest-indexed of the first 20 lines that holds a quarter token.
FirstTokenLine ==
    CHOOSE n \in TokenLines(QuarterWindow) :
        \A o \in TokenLines(QuarterWindow) : n <= o

\* C29: the quarter does not depend on the segmentation.  Whenever one of
\* the first 20 lines holds a quarter token, the quarter is a token of the
\* first such line in every state of the scan: whatever section and role are
\* in force when that line is dispatched (none before the first caption, the
\* Operator inside an Operator block), and also when the scan ends at a
\* definitions/disclaimer caption before reaching the line.  No step of the
\* scan changes the quarter, and the record carries it, also when its three
\* bodies are empty.
C29_QuarterUnsegmented ==
    /\ [](TokenLines(QuarterWindow) # {}
            => /\ IsQuarterToken(quarter)
               /\ Contains(At(FirstTokenLine), quarter))
    /\ [][ /\ quarter' = quarter
           /\ ( /\ Dispatching
                /\ TokenLines(QuarterWindow) # {}
                /\ i = FirstTokenLine
                /\ \/ current_section = None
                   \/ current_role = ROLE_OPERATOR )
              => /\ UNCHANGED Buffers
                 /\ IsQuarterToken(quarter')
                 /\ Contains(At(i), quarter') ]_vars
    /\ []( ( /\ pc = "done"
             /\ TokenLines(QuarterWindow) # {}
             /\ i < Len(lines)
             /\ FirstTokenLine > i )
           => /\ TerminatingCaption(i)
              /\ IsQuarterToken(result[1].quarter) )
    /\ [](pc = "done" => result[1].quarter = quarter)

\* A finished scan that stopped at its first marker, a disclaimer caption
\* behind it: the quarter line behind the caption was never dispatched, the
\* three bodies of the record are empty and its quarter is "Q2 2022".
C29_Witness ==
    /\ pc = "done"
    /\ i = 0
    /\ Len(lines) = 3
    /\ TerminatingCaption(0)
    /\ At(2) = TxtQuarterLine
    /\ result[1].quarter = TokQ2
    /\ result[1].prepared_remarks = <<>>
    /\ result[1].qa_management = <<>>
    /\ result[1].qa_analysts = <<>>

\* ---- the MU parser against the generic parser ----

\* Every section caption of the file (the first non-blank line behind a
\* section marker) holds a section keyword in any case only if it holds it
\* in the spelling "Presentation", "Questions and Answers", "Definitions",
\* "Disclaimer", and holds no "q&a" in any case.
CaptionsCapitalised ==
    \A m \in 0..(Len(lines) - 1) :
        (SECTION_SEPARATOR_PATTERN(At(m)) /\ HasCaption(m))
        => LET cap == At(SkipBlank(m + 1))
               low == Lower(cap)
           IN  /\ Contains(low, KwPresentation) => Contains(cap, TxtPresentation)
               /\ Contains(low, KwQuestions) => Contains(cap, TxtQuestions)
               /\ Contains(low, KwDefinitions) => Contains(cap, TxtDefinitions)
               /\ Contains(low, KwDisclaimer) => Contains(cap, TxtDisclaimer)
               /\ ~Contains(low, KwQA)

\* The role the MU parser is to give a header: Operator, else Management
\* for "Micron", else Analyst.
MicronList(header) ==
    IF Contains(header, TxtOperator) THEN ROLE_OPERATOR
    ELSE IF Contains(header, <<"M", "i", "c", "r", "o", "n">>) THEN ROLE_MANAGEMENT
    ELSE ROLE_ANALYST

\* The two role rules give every confirmed header of the file the same role.
RolesCoincide ==
    \A m \in 0..(Len(lines) - 1) :
        (SPEAKER_SEPARATOR_PATTERN(At(m)) /\ ConfirmedBlock(m))
        => LET header == At(SkipBlank(m + 1))
           IN  MicronList(header) = DecisionList(header)

\* The two scans stand at the same place in the same state: same index,
\* same position in the code (in the loop, at the break, returned), same
\* section, same quarter, and a role that is unset in both or in none, and
\* the Operator's in both or in none.
SameScan ==
    /\ mu.i = i
    /\ mu.pc = pc
    /\ mu.current_section = current_section
    /\ mu.quarter = quarter
    /\ (mu.current_speaker_type = None) <=> (current_role = None)
    /\ (mu.current_speaker_type = ROLE_OPERATOR) <=> (current_role = ROLE_OPERATOR)

\* What the two have collected differs by the role rule only: the prepared
\* remarks are the same, the Q&A lines kept are as many, and all is the same
\* when the two role rules coincide on the headers of the file.
SameBuffersUpToRole ==
    /\ mu.prepared_remarks = prepared_remarks
    /\ Len(mu.qa_management) + Len(mu.qa_analysts)
          = Len(qa_management) + Len(qa_analysts)
    /\ RolesCoincide
          => /\ mu.current_speaker_type = current_role
             /\ mu.qa_management = qa_management
             /\ mu.qa_analysts = qa_analysts

\* The two records: the MU record has the ticker "MU"; quarter and prepared
\* remarks are the same; with coinciding role rules the records differ in
\* the ticker only.
SameRecordUpToRole ==
    (pc = "done" /\ mu.pc = "done")
    => /\ mu.result[1].ticker = "MU"
       /\ mu.result[1].quarter = result[1].quarter
       /\ mu.result[1].prepared_remarks = result[1].prepared_remarks
       /\ mu.result[1].word_count_prepared_remarks
             = result[1].word_count_prepared_remarks
       /\ mu.result[1].word_count_qa_management
             + mu.result[1].word_count_qa_analysts
             = result[1].word_count_qa_management
               + result[1].word_count_qa_analysts
       /\ RolesCoincide
             => [mu.result[1] EXCEPT !.ticker = result[1].ticker] = result[1]

\* C30: on a file whose section captions hold the section keywords only in
\* their capitalised spelling and hold no "q&a", the MU parser and the
\* generic parser run the same scan.  After every iteration of the generic
\* parser, the next iteration of the MU parser brings it to the same index
\* and the same place in the code (so both visit the same indices, skip the
\* same captions and header blocks, and stop at the same terminating
\* caption), with the same section and the same quarter.  A header block
\* the MU parser confirms gets the role Operator, else Management for
\* "Micron", else Analyst, while the generic parser has given it the role
\* of its decision list.  Buffers and records differ only through that
\* role and the ticker "MU".
C30_SameScan ==
    /\ []( (CaptionsCapitalised /\ ~Behind)
           => SameScan /\ SameBuffersUpToRole /\ SameRecordUpToRole )
    /\ [][ (CaptionsCapitalised /\ Behind)
           => /\ SameScan'
              /\ SameBuffersUpToRole'
              /\ SameRecordUpToRole'
              /\ ( /\ mu.pc = "loop"
                   /\ mu.i < Len(lines)
                   /\ SPEAKER_SEPARATOR_PATTERN(At(mu.i))
                   /\ ConfirmedBlock(mu.i) )
                 => LET header == At(SkipBlank(mu.i + 1))
                    IN  /\ mu'.current_speaker_type = MicronList(header)
                        /\ current_role = DecisionList(header)
                        /\ mu'.i = SkipBlank(SkipBlank(mu.i + 1) + 1) + 1 ]_vars

\* Both parsers have returned from the indented transcript that ends at a
\* "Definitions" caption: both stopped at the same marker with the same
\* quarter and the same prepared remarks; the header "Jane Doe, Chief
\* Financial Officer" is Management for the generic parser and Analyst for
\* the MU parser, so the line behind it is in different Q&A bodies.
C30_Witness ==
    /\ pc = "done"
    /\ mu.pc = "done"
    /\ CaptionsCapitalised
    /\ ~RolesCoincide
    /\ i = mu.i
    /\ i < Len(lines)
    /\ TerminatingCaption(i)
    /\ quarter = TokQ2
    /\ mu.result[1].quarter = TokQ2
    /\ prepared_remarks = <<TxtRevenue>>
    /\ mu.prepared_remarks = <<TxtRevenue>>
    /\ qa_management = <<TxtNextQuestion>>
    /\ qa_analysts = <<>>
    /\ mu.qa_management = <<>>
    /\ mu.qa_analysts = <<TxtNextQuestion>>
    /\ result[1].ticker = "AAPL"
    /\ mu.result[1].ticker = "MU"
====
